---- MODULE Spec2Model ----
(***************************************************************************)
(* npm-security-score: the score calculator (rule registry, sequential     *)
(* rule evaluation, clamp, band), the tarball analyzer (scratch            *)
(* directory, download, extraction with its path check, cleanup), the      *)
(* lifecycle-script rule, the update-behavior rule, the two rules that     *)
(* query the source host through GitHubClient, and the advisory client     *)
(* with its cache.                                                         *)
(*                                                                         *)
(* Scores are JavaScript numbers; the model keeps them as integers counted *)
(* in thousandths (100 is 100000), so that rounding to two decimals and    *)
(* the band thresholds are decided by arithmetic and not assumed.          *)
(***************************************************************************)
EXTENDS Integers, Sequences, FiniteSets, TLC

Milli(n) == n * 1000

(***************************************************************************)
(* ScoreCalculator                                                         *)
(***************************************************************************)
VARIABLES
    config,          \* this.config: baseScore, minScore, maxScore
    ruleRegistry,    \* this.ruleRegistry: the rules held, in Map order
    lastRegistered,  \* history: per name, the rule of the latest registerRule
    regOrder,        \* history: the names in the order they were first registered
    replacedOnce,    \* history: some registerRule named an already held rule
    pc,              \* where the current calculateScore call is
    packageData,     \* the argument of the current call
    rules,           \* const rules = getActiveRules(), captured by the call
    idx,             \* position in rules of the evaluate being awaited
    score,           \* let score
    ruleResults,     \* const ruleResults
    evalLog,         \* history: evaluate started / settled, in time order
    returned,        \* the ScoreResult the call resolved with
    thrown           \* the error the call rejected with

calcVars == <<config, ruleRegistry, lastRegistered, regOrder, replacedOnce, pc, packageData, rules,
              idx, score, ruleResults, evalLog, returned, thrown>>

NoRule == [name |-> "none"]
NoResult == [band |-> "none"]
NoError == "none"

RuleNames == {"rule1", "rule2"}

\* What a rule's evaluate does: reject with an Error, or resolve with a
\* RuleResult whose fields may be absent (the mocks of the tests return
\* { deduction: 10 } or { bonus: 10 }).
Outcomes ==
    { [kind |-> "throw", message |-> "Rule error"],
      [kind |-> "ok", result |-> [deduction |-> 10004]],
      [kind |-> "ok", result |-> [deduction |-> Milli(200), riskLevel |-> "high"]],
      [kind |-> "ok", result |-> [deduction |-> 0, bonus |-> Milli(150), riskLevel |-> "none"]],
      [kind |-> "ok", result |-> [deduction |-> Milli(5), bonus |-> 10001, riskLevel |-> "low"]] }

DisabledOutcome == [kind |-> "ok", result |-> [deduction |-> Milli(200), riskLevel |-> "high"]]

Rules ==
    { [name |-> n, enabled |-> TRUE, outcome |-> o] : n \in RuleNames, o \in Outcomes }
    \cup { [name |-> n, enabled |-> FALSE, outcome |-> DisabledOutcome] : n \in RuleNames }

\* new ScoreCalculator(config): the defaults and the configurations of the tests
Configs ==
    { [baseScore |-> b, minScore |-> Milli(0), maxScore |-> Milli(100)] :
          b \in {Milli(100), Milli(150), Milli(50), 89996} }
    \cup { [baseScore |-> Milli(100), minScore |-> Milli(50), maxScore |-> Milli(100)],
           [baseScore |-> Milli(100), minScore |-> Milli(0), maxScore |-> Milli(150)] }

NullPackage == [name |-> "null", version |-> "null"]
Packages == { [name |-> "test-package", version |-> "1.0.0"] }

MathMax(a, b) == IF a >= b THEN a ELSE b
MathMin(a, b) == IF a <= b THEN a ELSE b

\* Math.round(score * 100) / 100, on thousandths: Math.round rounds half up
Round2(s) == ((s + 5) \div 10) * 10

\* result.deduction || 0
OrZero(r, f) == IF f \in DOMAIN r THEN r[f] ELSE 0
\* result.riskLevel || 'none'
OrNone(r, f) == IF f \in DOMAIN r THEN r[f] ELSE "none"

\* scoreBands.getScoreBand
getScoreBand(s) ==
    IF s >= Milli(90) THEN "SAFE"
    ELSE IF s >= Milli(70) THEN "REVIEW"
    ELSE IF s >= Milli(50) THEN "HIGH_RISK"
    ELSE "BLOCK"

\* RuleRegistry.register: this.rules.set(rule.name, rule)
RECURSIVE SetByName(_, _)
SetByName(reg, rule) ==
    IF reg = <<>> THEN <<rule>>
    ELSE IF Head(reg).name = rule.name THEN <<rule>> \o Tail(reg)
    ELSE <<Head(reg)>> \o SetByName(Tail(reg), rule)

register(reg, rule) == SetByName(reg, rule)

\* RuleRegistry.getActiveRules: the held rules with enabled true, in Map order
getActiveRules(reg) == SelectSeq(reg, LAMBDA r : r.enabled)

\* getRules returning every held rule, the disabled ones too
getRules_All == ruleRegistry

\* ScoreCalculator.getRules
getRules == getActiveRules(ruleRegistry)

InitCalculator ==
    /\ config \in Configs
    /\ ruleRegistry = <<>>
    /\ lastRegistered = [n \in RuleNames |-> NoRule]
    /\ regOrder = <<>>
    /\ replacedOnce = FALSE
    /\ pc = "idle"
    /\ packageData = NullPackage
    /\ rules = <<>>
    /\ idx = 0
    /\ score = 0
    /\ ruleResults = <<>>
    /\ evalLog = <<>>
    /\ returned = NoResult
    /\ thrown = NoError

registerRule(rule) ==
    /\ ruleRegistry' = register(ruleRegistry, rule)
    /\ lastRegistered' = [lastRegistered EXCEPT ![rule.name] = rule]
    /\ regOrder' = IF lastRegistered[rule.name] = NoRule
                   THEN Append(regOrder, rule.name) ELSE regOrder
    /\ replacedOnce' = (replacedOnce \/ lastRegistered[rule.name] # NoRule)
    /\ UNCHANGED <<config, pc, packageData, rules, idx, score, ruleResults,
                   evalLog, returned, thrown>>

\* the ScoreResult without the clamp of line 345
ScoreResult_NoClamp(s, results, pd) ==
    [score |-> Round2(s),
     band |-> getScoreBand(s),
     ruleResults |-> results,
     packageName |-> pd.name,
     packageVersion |-> pd.version]

\* lines 344-357: clamp, band, the ScoreResult
ScoreResult(s, results, pd) ==
    LET clamped == MathMax(config.minScore, MathMin(config.maxScore, s))
    IN  [score |-> Round2(clamped),
         band |-> getScoreBand(clamped),
         ruleResults |-> results,
         packageName |-> pd.name,
         packageVersion |-> pd.version]

\* the loop as Promise.all would run it: every evaluate is started up front
Continue_Parallel(i, rs, s, results, log, pd) ==
    IF i < Len(rs)
    THEN /\ pc' = "awaiting"
         /\ idx' = i + 1
         /\ score' = s
         /\ ruleResults' = results
         /\ evalLog' = IF i = 0
                        THEN log \o [k \in 1..Len(rs) |-> <<"start", rs[k].name>>]
                        ELSE log
         /\ returned' = NoResult
    ELSE /\ pc' = "returned"
         /\ idx' = i
         /\ score' = s
         /\ ruleResults' = results
         /\ evalLog' = log
         /\ returned' = [score |-> Round2(MathMax(config.minScore, MathMin(config.maxScore, s))),
                         band |-> getScoreBand(MathMax(config.minScore, MathMin(config.maxScore, s))),
                         ruleResults |-> results,
                         packageName |-> pd.name,
                         packageVersion |-> pd.version]

\* The for loop from the point where i rules have settled: the next
\* rule.evaluate is invoked and awaited, or the loop is over and the call
\* resolves.
Continue(i, rs, s, results, log, pd) ==
    IF i < Len(rs)
    THEN /\ pc' = "awaiting"
         /\ idx' = i + 1
         /\ score' = s
         /\ ruleResults' = results
         /\ evalLog' = Append(log, <<"start", rs[i + 1].name>>)
         /\ returned' = NoResult
    ELSE /\ pc' = "returned"
         /\ idx' = i
         /\ score' = s
         /\ ruleResults' = results
         /\ evalLog' = log
         /\ returned' = ScoreResult(s, results, pd)

\* calculateScore without the guard of lines 307-309
calculateScore_NoGuard(pd) ==
    /\ pc # "awaiting"
    /\ packageData' = pd
    /\ rules' = getActiveRules(ruleRegistry)
    /\ thrown' = NoError
    /\ IF Len(getActiveRules(ruleRegistry)) > 0
       THEN /\ pc' = "awaiting"
            /\ idx' = 1
            /\ score' = config.baseScore
            /\ ruleResults' = <<>>
            /\ evalLog' = << <<"start", getActiveRules(ruleRegistry)[1].name>> >>
            /\ returned' = NoResult
       ELSE /\ pc' = "returned"
            /\ idx' = 0
            /\ score' = config.baseScore
            /\ ruleResults' = <<>>
            /\ evalLog' = <<>>
            /\ returned' = [score |-> Round2(MathMax(config.minScore, MathMin(config.maxScore, config.baseScore))),
                            band |-> getScoreBand(MathMax(config.minScore, MathMin(config.maxScore, config.baseScore))),
                            ruleResults |-> <<>>,
                            packageName |-> pd.name,
                            packageVersion |-> pd.version]
    /\ UNCHANGED <<config, ruleRegistry, lastRegistered, regOrder, replacedOnce>>

\* calculateScore going on from the score the call before left behind
calculateScore_CarriesScore(pd) ==
    /\ pc # "awaiting"
    /\ packageData' = pd
    /\ IF pd = NullPackage
       THEN /\ pc' = "threw"
            /\ thrown' = "Package data is required"
            /\ rules' = <<>>
            /\ idx' = 0
            /\ score' = 0
            /\ ruleResults' = <<>>
            /\ evalLog' = <<>>
            /\ returned' = NoResult
       ELSE /\ rules' = getRules
            /\ thrown' = NoError
            /\ Continue(0, getRules, score, <<>>, <<>>, pd)
    /\ UNCHANGED <<config, ruleRegistry, lastRegistered, regOrder, replacedOnce>>

\* calculateScore(packageData), up to its first await
calculateScore(pd) ==
    /\ pc # "awaiting"
    /\ packageData' = pd
    /\ IF pd = NullPackage
       THEN /\ pc' = "threw"
            /\ thrown' = "Package data is required"
            /\ rules' = <<>>
            /\ idx' = 0
            /\ score' = 0
            /\ ruleResults' = <<>>
            /\ evalLog' = <<>>
            /\ returned' = NoResult
       ELSE /\ rules' = getRules
            /\ thrown' = NoError
            /\ Continue(0, getRules, config.baseScore, <<>>, <<>>, pd)
    /\ UNCHANGED <<config, ruleRegistry, lastRegistered, regOrder, replacedOnce>>

\* the try body adding no bonus (line 322 left out)
RuleSettled_NoBonus(rule, s, results) ==
    IF rule.outcome.kind = "ok"
    THEN LET result == rule.outcome.result
         IN  [score |-> s - OrZero(result, "deduction"),
              ruleResults |-> Append(results,
                  [ruleName |-> rule.name,
                   deduction |-> OrZero(result, "deduction"),
                   bonus |-> OrZero(result, "bonus"),
                   riskLevel |-> OrNone(result, "riskLevel")])]
    ELSE [score |-> s,
          ruleResults |-> Append(results,
              [ruleName |-> rule.name,
               deduction |-> 0,
               bonus |-> 0,
               riskLevel |-> "error"])]

\* lines 318-341: the awaited evaluate settles; try body or catch body
RuleSettled(rule, s, results) ==
    IF rule.outcome.kind = "ok"
    THEN LET result == rule.outcome.result
         IN  [score |-> (s - OrZero(result, "deduction")) + OrZero(result, "bonus"),
              ruleResults |-> Append(results,
                  [ruleName |-> rule.name,
                   deduction |-> OrZero(result, "deduction"),
                   bonus |-> OrZero(result, "bonus"),
                   riskLevel |-> OrNone(result, "riskLevel")])]
    ELSE [score |-> s,
          ruleResults |-> Append(results,
              [ruleName |-> rule.name,
               deduction |-> 0,
               bonus |-> 0,
               riskLevel |-> "error"])]

\* the loop without its try/catch: a rejected evaluate rejects the call
evaluateSettles_Rethrow ==
    /\ pc = "awaiting"
    /\ IF rules[idx].outcome.kind = "throw"
       THEN /\ pc' = "threw"
            /\ thrown' = rules[idx].outcome.message
            /\ evalLog' = Append(evalLog, <<"end", rules[idx].name>>)
            /\ UNCHANGED <<idx, score, ruleResults, returned>>
       ELSE /\ thrown' = thrown
            /\ LET rule == rules[idx]
                   after == RuleSettled(rule, score, ruleResults)
               IN  Continue(idx, rules, after.score, after.ruleResults,
                            Append(evalLog, <<"end", rule.name>>), packageData)
    /\ UNCHANGED <<config, ruleRegistry, lastRegistered, regOrder, replacedOnce,
                   packageData, rules>>

evaluateSettles ==
    /\ pc = "awaiting"
    /\ LET rule == rules[idx]
           after == RuleSettled(rule, score, ruleResults)
       IN  Continue(idx, rules, after.score, after.ruleResults,
                    Append(evalLog, <<"end", rule.name>>), packageData)
    /\ UNCHANGED <<config, ruleRegistry, lastRegistered, regOrder, replacedOnce,
                   packageData, rules, thrown>>

(***************************************************************************)
(* TarballAnalyzer                                                         *)
(*                                                                         *)
(* A file name is a sequence of pieces of text, so that one name can be a  *)
(* proper string prefix of another ("extracted" of "extracted-evil"); a    *)
(* path is the sequence of the names of a normalized absolute path.        *)
(***************************************************************************)
VARIABLES
    disk,            \* the file system: the set of [path, kind] that exist
    alive,           \* FALSE once an unhandled 'error' event or rejection ended the process
    tpc,             \* per call: where analyzeTarball is
    targs,           \* per call: tarballUrl and packageName
    tempPath,        \* per call: const tempPath
    extractedPath,   \* per call: let extractedPath = null
    entriesSeen,     \* per call: entries the extractor has handed to the handler
    pending,         \* per call: what the try block ended with (return / the error)
    analysis,        \* per call: the analysis the call resolved with
    created,         \* history, per call: paths the entry handler created or wrote
    finishedBefore,  \* history, per call: the calls already over when it began
    lastRead,        \* history: the last getFileContent, its path and outcome
    responseStatus   \* history, per call: response.statusCode of the download

tarVars == <<disk, alive, tpc, targs, tempPath, extractedPath, entriesSeen,
             pending, analysis, created, finishedBefore, lastRead, responseStatus>>

Calls == {1, 2}
NoResponse == 0                \* the response callback has not run
MaxEntries == 2

NoPath == << <<"null">> >>
NoArgs == [tarballUrl |-> "", packageName |-> <<>>]
NoRead == [outcome |-> "none", path |-> NoPath, root |-> NoPath]

DotDot == <<"..">>

\* os.tmpdir() / 'npm-security-score'
TempDir == << <<"tmp">>, <<"npm-security-score">> >>

\* package names, split at '/'
PackageNames ==
    { << <<"pkg">> >>, << <<"@s">>, <<"pkg">> >>, << <<"a">>, <<"b">>, DotDot, DotDot >> }
TarballUrls == {"", "https://registry.npmjs.org/pkg/-/pkg-1.0.0.tgz"}

\* tar headers: name (split at '/'), whether it starts with '/', type
Entries ==
    { [name |-> << <<"package">> >>, absolute |-> FALSE, type |-> "directory"],
      [name |-> << <<"package">>, <<"index.js">> >>, absolute |-> FALSE, type |-> "file"],
      [name |-> << DotDot, <<"extracted", "-evil">> >>, absolute |-> FALSE, type |-> "directory"],
      [name |-> << DotDot, <<"extracted", "-evil">>, <<"index.js">> >>, absolute |-> FALSE, type |-> "file"],
      [name |-> << DotDot, DotDot, <<"escaped">> >>, absolute |-> FALSE, type |-> "directory"],
      [name |-> << <<"etc">> >>, absolute |-> TRUE, type |-> "directory"],
      [name |-> << <<"package">>, <<"link">> >>, absolute |-> FALSE, type |-> "symlink"] }

\* relative paths handed to getFileContent
ReadPaths ==
    { << <<"index.js">> >>,
      << DotDot, DotDot, <<"extracted", "-evil">>, <<"index.js">> >>,
      << DotDot, DotDot, <<"package.tgz">> >> }

\* path.join(base, ...names): '..' pops a name, never above the root
RECURSIVE pathJoin(_, _)
pathJoin(base, names) ==
    IF names = <<>> THEN base
    ELSE IF Head(names) = DotDot
         THEN pathJoin(IF base = <<>> THEN base ELSE SubSeq(base, 1, Len(base) - 1), Tail(names))
         ELSE pathJoin(Append(base, Head(names)), Tail(names))

IsPrefixOf(a, b) == Len(a) <= Len(b) /\ SubSeq(b, 1, Len(a)) = a

\* String.prototype.startsWith on the '/'-joined texts of two paths
startsWith(p, root) ==
    /\ root # <<>>
    /\ Len(p) >= Len(root)
    /\ SubSeq(p, 1, Len(root) - 1) = SubSeq(root, 1, Len(root) - 1)
    /\ IsPrefixOf(root[Len(root)], p[Len(root)])

\* packageName.replace('/', '_'): a string pattern replaces its first match
replaceSlash(name) ==
    IF Len(name) >= 2
    THEN << name[1] \o <<"_">> \o name[2] >> \o SubSeq(name, 3, Len(name))
    ELSE name

Exists(d, p) == \E e \in d : e.path = p
IsDir(d, p) == [path |-> p, kind |-> "directory"] \in d
IsFile(d, p) == [path |-> p, kind |-> "file"] \in d
Parent(p) == SubSeq(p, 1, Len(p) - 1)
Ancestors(p) == { SubSeq(p, 1, n) : n \in 1..Len(p) }

\* mkdir(p, { recursive: true }): fails when a file is on the way
mkdirFails(d, p) == \E a \in Ancestors(p) : IsFile(d, a)
mkdir(d, p) == d \cup { [path |-> a, kind |-> "directory"] : a \in Ancestors(p) }

\* rm(p, { recursive: true, force: true })
rm(d, p) == { e \in d : ~IsPrefixOf(p, e.path) }

\* createWriteStream(p) opens p for writing: needs the parent directory
openFails(d, p) == ~IsDir(d, Parent(p)) \/ IsDir(d, p)
writeFile(d, p) == d \cup { [path |-> p, kind |-> "file"] }

\* _analyzeDirectory: analysis.totalFiles, the files below packagePath
totalFiles(d, packagePath) ==
    Cardinality({ e \in d : e.kind = "file" /\ IsPrefixOf(packagePath, Parent(e.path)) })

tarballPathOf(c) == Append(tempPath[c], <<"package.tgz">>)

InProgress(c) == tpc[c] \notin {"idle", "returned", "threw"}
Finished(c) == tpc[c] \in {"returned", "threw"}

InitTarballAnalyzer ==
    /\ disk = {}
    /\ alive = TRUE
    /\ tpc = [c \in Calls |-> "idle"]
    /\ targs = [c \in Calls |-> NoArgs]
    /\ tempPath = [c \in Calls |-> NoPath]
    /\ extractedPath = [c \in Calls |-> NoPath]
    /\ entriesSeen = [c \in Calls |-> 0]
    /\ pending = [c \in Calls |-> "none"]
    /\ analysis = [c \in Calls |-> 0]
    /\ created = [c \in Calls |-> {}]
    /\ finishedBefore = [c \in Calls |-> {}]
    /\ lastRead = NoRead
    /\ responseStatus = [c \in Calls |-> NoResponse]

\* the try block is left: the finally block runs next
Leave(c, outcome) ==
    /\ tpc' = [tpc EXCEPT ![c] = "cleanup"]
    /\ pending' = [pending EXCEPT ![c] = outcome]
    /\ entriesSeen' = [entriesSeen EXCEPT ![c] = 0]
    /\ created' = [created EXCEPT ![c] = {}]

\* analyzeTarball(tarballUrl, packageName), up to await mkdir(tempPath)
analyzeTarball(c, url, name) ==
    /\ alive
    /\ tpc[c] = "idle"
    /\ \A o \in Calls : o < c => tpc[o] # "idle"
    /\ targs' = [targs EXCEPT ![c] = [tarballUrl |-> url, packageName |-> name]]
    /\ finishedBefore' = [finishedBefore EXCEPT ![c] = { o \in Calls : Finished(o) }]
    /\ IF url = ""
       THEN /\ tpc' = [tpc EXCEPT ![c] = "threw"]
            /\ pending' = [pending EXCEPT ![c] = "Tarball URL is required"]
            /\ UNCHANGED tempPath
       ELSE /\ tpc' = [tpc EXCEPT ![c] = "mkdir"]
            /\ tempPath' = [tempPath EXCEPT ![c] = pathJoin(TempDir, replaceSlash(name))]
            /\ UNCHANGED pending
    /\ UNCHANGED <<disk, alive, extractedPath, entriesSeen, analysis, created, lastRead, responseStatus>>

\* await mkdir(tempPath, { recursive: true }) settles; _downloadTarball
\* issues the request
mkdirTemp(c) ==
    /\ alive
    /\ tpc[c] = "mkdir"
    /\ IF mkdirFails(disk, tempPath[c])
       THEN /\ Leave(c, "EEXIST")
            /\ UNCHANGED disk
       ELSE /\ disk' = mkdir(disk, tempPath[c])
            /\ tpc' = [tpc EXCEPT ![c] = "request"]
            /\ UNCHANGED <<pending, entriesSeen, created>>
    /\ UNCHANGED <<alive, targs, tempPath, extractedPath, analysis,
                   finishedBefore, lastRead, responseStatus>>

\* the response callback: a status other than 200 rejects, 200 opens the
\* file stream and pipes the response into it
response(c, statusCode) ==
    /\ alive
    /\ tpc[c] = "request"
    /\ IF statusCode # 200
       THEN /\ Leave(c, "Failed to download tarball: HTTP status")
            /\ UNCHANGED disk
       ELSE IF openFails(disk, tarballPathOf(c))
       THEN \* fileStream 'error': rm(destPath), reject(error)
            /\ Leave(c, "ENOENT")
            /\ disk' = rm(disk, tarballPathOf(c))
       ELSE /\ disk' = writeFile(disk, tarballPathOf(c))
            /\ tpc' = [tpc EXCEPT ![c] = "streaming"]
            /\ UNCHANGED <<pending, entriesSeen, created>>
    /\ responseStatus' = [responseStatus EXCEPT ![c] = statusCode]
    /\ UNCHANGED <<alive, targs, tempPath, extractedPath, analysis,
                   finishedBefore, lastRead>>

\* request 'error', or the socket timeout: reject; what was written stays
downloadFails(c, message) ==
    /\ alive
    /\ tpc[c] \in {"request", "streaming"}
    /\ Leave(c, message)
    /\ UNCHANGED <<disk, alive, targs, tempPath, extractedPath,
                   analysis, finishedBefore, lastRead, responseStatus>>

\* fileStream 'finish': resolve; analyzeTarball sets extractedPath and
\* calls _extractTarball, up to await mkdir(extractPath)
downloadFinishes(c) ==
    /\ alive
    /\ tpc[c] = "streaming"
    /\ tpc' = [tpc EXCEPT ![c] = "extract"]
    /\ extractedPath' = [extractedPath EXCEPT ![c] = Append(tempPath[c], <<"extracted">>)]
    /\ UNCHANGED <<disk, alive, targs, tempPath, entriesSeen, pending, analysis,
                   created, finishedBefore, lastRead, responseStatus>>

\* await mkdir(extractPath) settles; the archive is opened and piped into
\* the extractor. The read stream has no 'error' listener.
extractStarts(c) ==
    /\ alive
    /\ tpc[c] = "extract"
    /\ IF mkdirFails(disk, extractedPath[c])
       THEN /\ Leave(c, "EEXIST")
            /\ UNCHANGED <<disk, alive>>
       ELSE IF ~IsFile(mkdir(disk, extractedPath[c]), tarballPathOf(c))
       THEN /\ disk' = mkdir(disk, extractedPath[c])
            /\ alive' = FALSE
            /\ UNCHANGED <<tpc, pending, entriesSeen, created>>
       ELSE /\ disk' = mkdir(disk, extractedPath[c])
            /\ tpc' = [tpc EXCEPT ![c] = "entries"]
            /\ UNCHANGED <<alive, pending, entriesSeen, created>>
    /\ UNCHANGED <<targs, tempPath, extractedPath, analysis,
                   finishedBefore, lastRead, responseStatus>>

\* extract.on('entry', ...): one header of the archive
entry(c, header) ==
    /\ alive
    /\ tpc[c] = "entries"
    /\ entriesSeen[c] < MaxEntries
    /\ entriesSeen' = [entriesSeen EXCEPT ![c] = @ + 1]
    /\ LET filePath == pathJoin(extractedPath[c], header.name)
       IN  IF ~startsWith(filePath, extractedPath[c])
           THEN UNCHANGED <<disk, alive, created>>
           ELSE IF header.type = "directory"
           THEN IF mkdirFails(disk, filePath)
                THEN /\ alive' = FALSE
                     /\ UNCHANGED <<disk, created>>
                ELSE /\ disk' = mkdir(disk, filePath)
                     /\ created' = [created EXCEPT ![c] = @ \cup {filePath}]
                     /\ UNCHANGED alive
           ELSE IF header.type = "file"
           THEN IF openFails(disk, filePath)
                THEN /\ alive' = FALSE
                     /\ UNCHANGED <<disk, created>>
                ELSE /\ disk' = writeFile(disk, filePath)
                     /\ created' = [created EXCEPT ![c] = @ \cup {filePath}]
                     /\ UNCHANGED alive
           ELSE UNCHANGED <<disk, alive, created>>
    /\ UNCHANGED <<tpc, targs, tempPath, extractedPath, pending, analysis,
                   finishedBefore, lastRead, responseStatus>>

\* extract 'error': a corrupt archive rejects _extractTarball
extractFails(c) ==
    /\ alive
    /\ tpc[c] = "entries"
    /\ Leave(c, "Unexpected end of data")
    /\ UNCHANGED <<disk, alive, targs, tempPath, extractedPath,
                   analysis, finishedBefore, lastRead, responseStatus>>

\* extract 'finish': resolve; _analyzeContents walks extractPath/package
\* (every failure inside it is caught) and the try block returns
analyzeContents(c) ==
    /\ alive
    /\ tpc[c] = "entries"
    /\ analysis' = [analysis EXCEPT ![c] = totalFiles(disk, Append(extractedPath[c], <<"package">>))]
    /\ Leave(c, "return")
    /\ UNCHANGED <<disk, alive, targs, tempPath, extractedPath,
                   finishedBefore, lastRead, responseStatus>>

\* finally: if (extractedPath) await rm(extractedPath, ...)
cleanupExtracted(c) ==
    /\ alive
    /\ tpc[c] = "cleanup"
    /\ disk' = IF extractedPath[c] # NoPath THEN rm(disk, extractedPath[c]) ELSE disk
    /\ tpc' = [tpc EXCEPT ![c] = "cleanupTemp"]
    /\ UNCHANGED <<alive, targs, tempPath, extractedPath, entriesSeen, pending,
                   analysis, created, finishedBefore, lastRead, responseStatus>>

\* a finally block that leaves the scratch directory where it is
cleanupTemp_KeepsDirectory(c) ==
    /\ alive
    /\ tpc[c] = "cleanupTemp"
    /\ tpc' = [tpc EXCEPT ![c] = IF pending[c] = "return" THEN "returned" ELSE "threw"]
    /\ UNCHANGED <<disk, alive, targs, tempPath, extractedPath, entriesSeen, pending,
                   analysis, created, finishedBefore, lastRead, responseStatus>>

\* finally: await rm(tempPath, ...); the call then resolves or rejects
cleanupTemp(c) ==
    /\ alive
    /\ tpc[c] = "cleanupTemp"
    /\ disk' = rm(disk, tempPath[c])
    /\ tpc' = [tpc EXCEPT ![c] = IF pending[c] = "return" THEN "returned" ELSE "threw"]
    /\ UNCHANGED <<alive, targs, tempPath, extractedPath, entriesSeen, pending,
                   analysis, created, finishedBefore, lastRead, responseStatus>>

\* getFileContent(extractPath, filePath), on the extraction directory of a
\* call whose archive has been extracted
getFileContent(c, filePath) ==
    /\ alive
    /\ tpc[c] = "entries"
    /\ LET fullPath == pathJoin(Append(extractedPath[c], <<"package">>), filePath)
       IN  lastRead' =
              IF ~startsWith(fullPath, extractedPath[c])
              THEN [outcome |-> "Invalid file path", path |-> fullPath, root |-> extractedPath[c]]
              ELSE IF IsFile(disk, fullPath)
              THEN [outcome |-> "content", path |-> fullPath, root |-> extractedPath[c]]
              ELSE [outcome |-> "Failed to read file", path |-> fullPath, root |-> extractedPath[c]]
    /\ UNCHANGED <<disk, alive, tpc, targs, tempPath, extractedPath, entriesSeen,
                   pending, analysis, created, finishedBefore, responseStatus>>

(***************************************************************************)
(* LifecycleScriptRiskRule                                                 *)
(*                                                                         *)
(* A script is the sequence of its whitespace-separated words; the regular *)
(* expressions of the rule are decided on the words.  Of the patterns of   *)
(* the rule only those that some script over Words, Urls and HexEscapes    *)
(* can match are written out; the others (ftp, nc, netcat, telnet,         *)
(* require(...), fetch(, XMLHttpRequest, download, eval(, Function(,       *)
(* exec(, spawn(, "| bash", base64 runs, String.fromCharCode, a$b$) match  *)
(* no script built from these words.                                       *)
(***************************************************************************)
VARIABLES
    lsWeight,        \* this.weight of the lifecycle rule
    lsEnabled,       \* this.isEnabled()
    lsScripts,       \* packageData.scripts: hook -> script
    lsPc,            \* where the evaluate call is
    lsResult         \* the RuleResult evaluate resolved with

lifecycleVars == <<lsWeight, lsEnabled, lsScripts, lsPc, lsResult>>

MaxScriptLen == 2

NoScript == <<>>
NoRuleResult == [riskLevel |-> "not evaluated"]
Urls == {"http://x", "http://y", "http://x/y.sh"}
HexEscapes == {"\\x41"}
Words == {"curl", "wget", "http://x", "|", "sh", "&&", "\\x41"}
Weights == {5, 10, 30}
Hooks == {"preinstall", "postinstall", "test"}
LifecycleHooks == {"preinstall", "postinstall"}

RECURSIVE SeqsUpTo(_, _)
SeqsUpTo(S, n) ==
    IF n = 0 THEN {<<>>}
    ELSE LET shorter == SeqsUpTo(S, n - 1)
         IN  shorter \cup {Append(s, w) : s \in shorter, w \in S}

\* the scripts of the documented examples and of the rule's tests
CurlPipeSh == <<"curl", "http://x/y.sh", "|", "sh">>
CurlUrl == <<"curl", "http://x">>
WgetUrl == <<"wget", "http://y">>
\* three chained commands, and a script in which every kind of pattern matches
Chained == <<"sh", "&&", "sh", "&&", "sh", "&&", "sh">>
Everything == <<"wget", "http://x", "|", "sh", "&&", "\\x41", "&&", "\\x41", "&&", "curl", "sh">>
Scripts == SeqsUpTo(Words, MaxScriptLen) \cup {CurlPipeSh, CurlUrl, WgetUrl, Chained, Everything}
OtherScripts == {NoScript, CurlPipeSh, CurlUrl, <<"curl", "sh">>, <<"sh">>}

Indexes(script) == 1..Len(script)
BoolToNat(b) == IF b THEN 1 ELSE 0
Floor075(w) == (w * 3) \div 4
Floor05(w) == w \div 2

\* /\bTOOL\s+[^\s]+/i: the tool and one more word
toolWithArgument(script, tool) ==
    \E i \in Indexes(script) : script[i] = tool /\ i < Len(script)
\* /\bTOOL\s+.*http/i: the tool and, further on, a word holding "http"
toolThenHttp(script, tool) ==
    \E i \in Indexes(script), j \in Indexes(script) :
        i < j /\ script[i] = tool /\ script[j] \in Urls
\* /\|\s*sh/: a pipe whose next word starts with sh, at position from or later
pipeToShell(script, from) ==
    \E j \in Indexes(script) :
        j >= from /\ j < Len(script) /\ script[j] = "|" /\ script[j + 1] = "sh"
\* /\bTOOL\s+.*\|\s*sh/i
toolPipedToShell(script, tool) ==
    \E i \in Indexes(script) : script[i] = tool /\ pipeToShell(script, i + 1)
\* /\bhttp.*\|\s*sh/i
httpPipedToShell(script) ==
    \E i \in Indexes(script) : script[i] \in Urls /\ pipeToShell(script, i + 1)

\* this.highRiskPatterns: does some pattern match (the loop breaks at the first)
highRiskPatterns(script) ==
    \/ toolPipedToShell(script, "curl")
    \/ toolPipedToShell(script, "wget")
    \/ httpPipedToShell(script)
\* this.suspiciousCommands: the number of patterns that match
suspiciousCommands(script) ==
    BoolToNat(toolWithArgument(script, "curl"))
    + BoolToNat(toolWithArgument(script, "wget"))
    + BoolToNat(toolThenHttp(script, "wget"))
    + BoolToNat(toolThenHttp(script, "curl"))
\* this.obfuscationPatterns: the number of patterns with a match (/\\x[0-9a-fA-F]{2}/g)
obfuscationPatterns(script) ==
    BoolToNat(\E i \in Indexes(script) : script[i] \in HexEscapes)
\* script.match(/&&|\|\||;/g)
chains(script) == Cardinality({i \in Indexes(script) : script[i] = "&&"})

tierOf(isHigh, risk) ==
    IF isHigh \/ risk >= 3 THEN "high"
    ELSE IF risk >= 2 THEN "medium"
    ELSE IF risk >= 1 THEN "low"
    ELSE "none"

\* the loop over the high-risk patterns without its break
analyzeScript_NoBreak(script) ==
    LET isHighRisk == highRiskPatterns(script)
        risk == 3 * (BoolToNat(toolPipedToShell(script, "curl"))
                     + BoolToNat(toolPipedToShell(script, "wget"))
                     + BoolToNat(httpPipedToShell(script)))
                + suspiciousCommands(script)
                + 2 * obfuscationPatterns(script)
                + BoolToNat(chains(script) >= 3)
    IN  [risk |-> risk, riskLevel |-> tierOf(isHighRisk, risk), isHighRisk |-> isHighRisk]

\* the first high-risk match ends the analysis of the script
analyzeScript_EarlyReturn(script) ==
    LET isHighRisk == highRiskPatterns(script)
        risk == IF isHighRisk THEN 1
                ELSE suspiciousCommands(script) + 2 * obfuscationPatterns(script)
                     + BoolToNat(chains(script) >= 3)
    IN  [risk |-> risk, riskLevel |-> tierOf(FALSE, risk), isHighRisk |-> FALSE]

\* LifecycleScriptRiskRule._analyzeScript(script, _hook)
analyzeScript(script) ==
    LET isHighRisk == highRiskPatterns(script)
        risk == (IF isHighRisk THEN 3 ELSE 0)
                + suspiciousCommands(script)
                + 2 * obfuscationPatterns(script)
                + BoolToNat(chains(script) >= 3)
    IN  [risk |-> risk, riskLevel |-> tierOf(isHighRisk, risk), isHighRisk |-> isHighRisk]

\* PackageAnalyzer.extractLifecycleScripts: the lifecycle hooks that have a script
extractLifecycleScripts(scripts) ==
    {hook \in LifecycleHooks : scripts[hook] # NoScript}
\* PackageAnalyzer.normalizeScript: runs of whitespace collapse (no empty word)
normalizeScript(script) == SelectSeq(script, LAMBDA w : w # "")

RECURSIVE SumRisk(_, _)
SumRisk(hooks, scripts) ==
    IF hooks = {} THEN 0
    ELSE LET hook == CHOOSE h \in hooks : TRUE
         IN  analyzeScript(normalizeScript(scripts[hook])).risk
             + SumRisk(hooks \ {hook}, scripts)

\* Math.ceil in place of Math.floor
lifecycleDeduction_Ceil(weight, hasHighRisk, totalRisk) ==
    IF hasHighRisk \/ totalRisk >= 3 THEN weight
    ELSE IF totalRisk >= 2 THEN (weight * 3 + 3) \div 4
    ELSE IF totalRisk >= 1 THEN (weight + 1) \div 2
    ELSE 0

\* evaluate: let deduction

lifecycleDeduction(weight, hasHighRisk, totalRisk) ==
    IF hasHighRisk \/ totalRisk >= 3 THEN weight
    ELSE IF totalRisk >= 2 THEN Floor075(weight)
    ELSE IF totalRisk >= 1 THEN Floor05(weight)
    ELSE 0

\* evaluate: the riskLevel of the RuleResult
lifecycleRiskLevel(hasHighRisk, totalRisk) ==
    IF hasHighRisk THEN "high"
    ELSE IF totalRisk >= 2 THEN "medium"
    ELSE IF totalRisk >= 1 THEN "low"
    ELSE "none"

\* the RuleResult of evaluate for the given rule and scripts
lifecycleResult(weight, enabled, scripts) ==
    LET hooks == extractLifecycleScripts(scripts)
        totalRisk == SumRisk(hooks, scripts)
        hasHighRisk ==
            \E hook \in hooks : analyzeScript(normalizeScript(scripts[hook])).isHighRisk
        findings ==
            {[hook |-> hook,
              risk |-> analyzeScript(normalizeScript(scripts[hook])).risk,
              riskLevel |-> analyzeScript(normalizeScript(scripts[hook])).riskLevel,
              isHighRisk |-> analyzeScript(normalizeScript(scripts[hook])).isHighRisk] :
                hook \in {h \in hooks : analyzeScript(normalizeScript(scripts[h])).risk > 0}}
    IN  IF ~enabled
        THEN [deduction |-> 0, reason |-> "Rule is disabled", riskLevel |-> "none",
              findings |-> {}, totalRisk |-> 0, hasHighRisk |-> FALSE]
        ELSE IF hooks = {}
        THEN [deduction |-> 0, reason |-> "No lifecycle scripts found", riskLevel |-> "none",
              findings |-> {}, totalRisk |-> 0, hasHighRisk |-> FALSE]
        ELSE [deduction |-> lifecycleDeduction(weight, hasHighRisk, totalRisk),
              reason |-> "none",
              riskLevel |-> lifecycleRiskLevel(hasHighRisk, totalRisk),
              findings |-> findings, totalRisk |-> totalRisk, hasHighRisk |-> hasHighRisk]

IdleLifecycle ==
    /\ lsWeight = 30
    /\ lsEnabled = TRUE
    /\ lsScripts = [hook \in Hooks |-> NoScript]
    /\ lsPc = "idle"
    /\ lsResult = NoRuleResult

InitLifecycle ==
    /\ lsWeight \in Weights
    /\ lsEnabled \in BOOLEAN
    /\ \E pre \in Scripts, post \in OtherScripts, test \in {NoScript, CurlPipeSh} :
          lsScripts = [hook \in Hooks |->
                          IF hook = "preinstall" THEN pre
                          ELSE IF hook = "postinstall" THEN post ELSE test]
    /\ lsPc = "called"
    /\ lsResult = NoRuleResult

\* LifecycleScriptRiskRule.evaluate(packageData)
evaluateLifecycle ==
    /\ lsPc = "called"
    /\ lsPc' = "done"
    /\ lsResult' = lifecycleResult(lsWeight, lsEnabled, lsScripts)
    /\ UNCHANGED <<lsWeight, lsEnabled, lsScripts>>

(***************************************************************************)
(* UpdateBehaviorRule                                                      *)
(*                                                                         *)
(* A version string is the sequence of its character codes, so that the    *)
(* parser, the default (code unit) order of Array.prototype.sort and the   *)
(* numeric order of _compareVersionStrings are computed, not assumed.      *)
(***************************************************************************)
VARIABLES
    ubWeight,        \* this.weight of the update-behavior rule
    ubEnabled,       \* this.isEnabled()
    ubPackage,       \* the argument of evaluate
    ubPc,            \* where the evaluate call is
    ubHistory,       \* what registryClient.getAllVersions settled with
    ubResult         \* the RuleResult evaluate resolved with

updateVars == <<ubWeight, ubEnabled, ubPackage, ubPc, ubHistory, ubResult>>

MaxVersions == 3

sizeIncreaseThreshold == [num |-> 1, den |-> 2]
maxVersionsToAnalyze == 10
versionJumpThreshold == 2

Code == [plus |-> 43, dash |-> 45, dot |-> 46, zero |-> 48, nine |-> 57, v |-> 118]

RECURSIVE Digits(_)
Digits(n) ==
    IF n < 10 THEN <<Code.zero + n>>
    ELSE Append(Digits(n \div 10), Code.zero + (n % 10))
VersionString(major, minor, patch) ==
    Digits(major) \o <<Code.dot>> \o Digits(minor) \o <<Code.dot>> \o Digits(patch)

NoVersion == <<>>
Unparseable == Digits(1) \o <<Code.dot>> \o Digits(0)
Versions ==
    {VersionString(1, 0, 0), <<Code.v>> \o VersionString(1, 0, 1), VersionString(1, 5, 0),
     VersionString(1, 11, 0), VersionString(2, 0, 0), VersionString(3, 0, 0), Unparseable}

NoDependencies ==
    [dependencies |-> {}, devDependencies |-> {}, peerDependencies |-> {},
     optionalDependencies |-> {}]
\* the registry's metadata of one version: dist.unpackedSize (0 when absent),
\* scripts and the four kinds of dependencies
Metadata ==
    {[unpackedSize |-> 1000000, scripts |-> [hook \in Hooks |-> NoScript],
      deps |-> NoDependencies],
     [unpackedSize |-> 3000000,
      scripts |-> [hook \in Hooks |-> IF hook = "test" THEN CurlUrl ELSE NoScript],
      deps |-> NoDependencies],
     [unpackedSize |-> 2000000,
      scripts |-> [hook \in Hooks |-> IF hook = "postinstall" THEN <<"sh">> ELSE NoScript],
      deps |-> NoDependencies],
     [unpackedSize |-> 1500000,
      scripts |-> [hook \in Hooks |-> IF hook = "postinstall" THEN CurlUrl ELSE NoScript],
      deps |-> [NoDependencies EXCEPT !.dependencies = 1..10]],
     [unpackedSize |-> 0, scripts |-> [hook \in Hooks |-> NoScript],
      deps |-> [NoDependencies EXCEPT !.dependencies = 1..6, !.devDependencies = 7..11]]}

\* "2.0": a string that does not parse and that localeCompare puts between
\* 1.0.0 and 3.0.0
TwoPartVersion == Digits(2) \o <<Code.dot>> \o Digits(0)
InterruptedHistories ==
    {[v \in {VersionString(1, 0, 0), TwoPartVersion, VersionString(3, 0, 0)} |-> m] :
        m \in Metadata}
Histories ==
    UNION {[vs -> Metadata] : vs \in {s \in SUBSET Versions : Cardinality(s) <= MaxVersions}}
    \cup InterruptedHistories

NoHistory == [kind |-> "none", versions |-> <<>>]
NullSnapshot == [present |-> FALSE, name |-> "", version |-> NoVersion]
Snapshots ==
    {NullSnapshot,
     [present |-> TRUE, name |-> "", version |-> VersionString(1, 0, 0)],
     [present |-> TRUE, name |-> "pkg", version |-> NoVersion],
     [present |-> TRUE, name |-> "pkg", version |-> VersionString(1, 5, 0)],
     [present |-> TRUE, name |-> "pkg", version |-> VersionString(3, 0, 0)]}
UpdateWeights == {10, 15}

\* ---- _parseVersion ----
IsDigit(c) == c >= Code.zero /\ c <= Code.nine
\* version.replace(/^v/, '')
cleanVersion(version) ==
    IF version # <<>> /\ version[1] = Code.v THEN Tail(version) ELSE version
RECURSIVE LeadingDigits(_)
LeadingDigits(s) ==
    IF s # <<>> /\ IsDigit(s[1]) THEN 1 + LeadingDigits(Tail(s)) ELSE 0
RECURSIVE parseInt(_)
parseInt(digits) ==
    IF digits = <<>> THEN 0
    ELSE parseInt(SubSeq(digits, 1, Len(digits) - 1)) * 10
         + (digits[Len(digits)] - Code.zero)
Drop(s, n) == SubSeq(s, n + 1, Len(s))
NoParse == [ok |-> FALSE, major |-> 0, minor |-> 0, patch |-> 0]
\* /^(\d+)\.(\d+)\.(\d+)(?:-(.+))?(?:\+(.+))?$/
parseVersion(version) ==
    LET s1 == cleanVersion(version)
        n1 == LeadingDigits(s1)
        s2 == Drop(s1, n1 + 1)
        n2 == LeadingDigits(s2)
        s3 == Drop(s2, n2 + 1)
        n3 == LeadingDigits(s3)
        rest == Drop(s3, n3)
    IN  IF /\ n1 >= 1 /\ Len(s1) > n1 /\ s1[n1 + 1] = Code.dot
           /\ n2 >= 1 /\ Len(s2) > n2 /\ s2[n2 + 1] = Code.dot
           /\ n3 >= 1
           /\ (rest = <<>> \/ (rest[1] \in {Code.dash, Code.plus} /\ Len(rest) >= 2))
        THEN [ok |-> TRUE, major |-> parseInt(SubSeq(s1, 1, n1)),
              minor |-> parseInt(SubSeq(s2, 1, n2)),
              patch |-> parseInt(SubSeq(s3, 1, n3))]
        ELSE NoParse

\* the order of strings by code units; on digits, '.', '-' and lower-case
\* letters a.localeCompare(b) orders the same way
RECURSIVE codeUnitCompare(_, _)
codeUnitCompare(a, b) ==
    IF a = <<>> /\ b = <<>> THEN 0
    ELSE IF a = <<>> THEN -1
    ELSE IF b = <<>> THEN 1
    ELSE IF a[1] < b[1] THEN -1
    ELSE IF a[1] > b[1] THEN 1
    ELSE codeUnitCompare(Tail(a), Tail(b))

\* _compareVersionStrings(a, b), from the comparison of the parsed versions on
compareParsed(a, b, aParsed, bParsed) ==
    IF ~aParsed.ok \/ ~bParsed.ok THEN codeUnitCompare(a, b)
    ELSE IF aParsed.major # bParsed.major THEN aParsed.major - bParsed.major
    ELSE IF aParsed.minor # bParsed.minor THEN aParsed.minor - bParsed.minor
    ELSE IF aParsed.patch # bParsed.patch THEN aParsed.patch - bParsed.patch
    ELSE 0
\* _compareVersionStrings(a, b)
compareVersionStrings(a, b) == compareParsed(a, b, parseVersion(a), parseVersion(b))

\* the comparison Array.prototype.sort applies: "default" when the comparator
\* is undefined, as this._compareVersions is
compare(mode, a, b) ==
    IF mode = "default" THEN codeUnitCompare(a, b) ELSE compareVersionStrings(a, b)

\* Array.prototype.sort (stable): x goes behind every element not above it
RECURSIVE insertSorted(_, _, _)
insertSorted(mode, sorted, x) ==
    IF sorted = <<>> THEN <<x>>
    ELSE IF compare(mode, sorted[Len(sorted)], x) <= 0 THEN Append(sorted, x)
    ELSE Append(insertSorted(mode, SubSeq(sorted, 1, Len(sorted) - 1), x),
                sorted[Len(sorted)])
RECURSIVE sortFrom(_, _, _)
sortFrom(mode, sorted, rest) ==
    IF rest = <<>> THEN sorted
    ELSE sortFrom(mode, insertSorted(mode, sorted, rest[1]), Tail(rest))
sort(mode, seq) == sortFrom(mode, <<>>, seq)

\* Object.keys(versionHistory): the keys in some order (the sort that
\* follows orders distinct strings in one way only)
RECURSIVE keysOf(_)
keysOf(S) ==
    IF S = {} THEN <<>>
    ELSE LET x == CHOOSE y \in S : TRUE IN <<x>> \o keysOf(S \ {x})

\* ---- _compareVersionMetadata ----
NoSizeChange == "none"
\* 1. size: (currSize - prevSize) / prevSize against the threshold and against 1
sizeChange(prevMetadata, currMetadata) ==
    LET prevSize == prevMetadata.unpackedSize
        currSize == currMetadata.unpackedSize
    IN  IF prevSize > 0 /\ currSize > 0
           /\ (currSize - prevSize) * sizeIncreaseThreshold.den
                > prevSize * sizeIncreaseThreshold.num
        THEN (IF currSize - prevSize > prevSize THEN "high" ELSE "medium")
        ELSE NoSizeChange

\* _isSuspiciousScript(script)
isSuspiciousScript(script) ==
    /\ script # NoScript
    /\ \/ toolWithArgument(script, "curl")
       \/ toolWithArgument(script, "wget")
       \/ toolPipedToShell(script, "curl")
       \/ toolPipedToShell(script, "wget")

\* _detectScriptChanges(prevScripts, currScripts)
detectScriptChanges(prevScripts, currScripts) ==
    LET prevHooks == extractLifecycleScripts(prevScripts)
        currHooks == extractLifecycleScripts(currScripts)
        added == currHooks \ prevHooks
        removed == prevHooks \ currHooks
        modified == {hook \in prevHooks \cap currHooks :
                        normalizeScript(prevScripts[hook]) # normalizeScript(currScripts[hook])}
        newSuspiciousScripts ==
            {hook \in added : isSuspiciousScript(currScripts[hook])}
            \cup {hook \in modified :
                    /\ ~isSuspiciousScript(normalizeScript(prevScripts[hook]))
                    /\ isSuspiciousScript(normalizeScript(currScripts[hook]))}
    IN  [hasChanges |-> added # {} \/ removed # {} \/ modified # {},
         newSuspiciousScripts |-> Cardinality(newSuspiciousScripts)]

depTypes == {"dependencies", "devDependencies", "peerDependencies", "optionalDependencies"}
RECURSIVE totalAdded(_, _, _)
totalAdded(types, prevDeps, currDeps) ==
    IF types = {} THEN 0
    ELSE LET depType == CHOOSE t \in types : TRUE
         IN  Cardinality(currDeps[depType] \ prevDeps[depType])
             + totalAdded(types \ {depType}, prevDeps, currDeps)
\* _detectDependencyChanges(prevDeps, currDeps).hasSignificantChanges
detectDependencyChanges(prevDeps, currDeps) == totalAdded(depTypes, prevDeps, currDeps) > 10

compareVersionMetadata(prevMetadata, currMetadata) ==
    LET size == sizeChange(prevMetadata, currMetadata)
        scriptChanges == detectScriptChanges(prevMetadata.scripts, currMetadata.scripts)
        dependencyChanges == detectDependencyChanges(prevMetadata.deps, currMetadata.deps)
    IN  [hasIssues |-> size # NoSizeChange \/ scriptChanges.hasChanges \/ dependencyChanges,
         sizeChange |-> size,
         scriptChanges |-> scriptChanges.hasChanges,
         newSuspiciousScripts |-> scriptChanges.newSuspiciousScripts,
         dependencyChanges |-> dependencyChanges]

\* ---- _detectVersionJumps ----
NoJump == [isUnusual |-> FALSE, type |-> "none", magnitude |-> 0]
\* thresholds off by one
jumpBetween_AnyIncrease(prev, curr) ==
    IF ~prev.ok \/ ~curr.ok THEN NoJump
    ELSE IF curr.major - prev.major >= 1
    THEN [isUnusual |-> TRUE, type |-> "major-jump", magnitude |-> curr.major - prev.major]
    ELSE IF curr.major = prev.major /\ curr.minor - prev.minor >= 5
    THEN [isUnusual |-> TRUE, type |-> "minor-jump", magnitude |-> curr.minor - prev.minor]
    ELSE NoJump

\* _analyzeVersionJump, from the two parsed versions on
jumpBetween(prev, curr) ==
    IF ~prev.ok \/ ~curr.ok THEN NoJump
    ELSE IF curr.major - prev.major >= versionJumpThreshold
    THEN [isUnusual |-> TRUE, type |-> "major-jump", magnitude |-> curr.major - prev.major]
    ELSE IF curr.major = prev.major /\ curr.minor - prev.minor > 5
    THEN [isUnusual |-> TRUE, type |-> "minor-jump", magnitude |-> curr.minor - prev.minor]
    ELSE NoJump

\* _analyzeVersionJump(prevVersion, currVersion)
analyzeVersionJump(prevVersion, currVersion) ==
    jumpBetween(parseVersion(prevVersion), parseVersion(currVersion))

\* the loop of _detectVersionJumps over the sorted list
jumpsOf(sortedVersions, results) ==
    LET unusual == SelectSeq([i \in 1..Len(results) |-> i], LAMBDA i : results[i].isUnusual)
    IN  [k \in 1..Len(unusual) |->
            [from |-> sortedVersions[unusual[k]], to |-> sortedVersions[unusual[k] + 1],
             type |-> results[unusual[k]].type, magnitude |-> results[unusual[k]].magnitude]]
jumpResults(sortedVersions) ==
    [i \in 1..(Len(sortedVersions) - 1) |->
        analyzeVersionJump(sortedVersions[i], sortedVersions[i + 1])]
jumpsIn(sortedVersions) == jumpsOf(sortedVersions, jumpResults(sortedVersions))
\* _detectVersionJumps(versions)
detectVersionJumps(versions) == jumpsIn(sort("compareVersionStrings", versions))

\* ---- _analyzeVersionChanges ----
indexOf(seq, x) ==
    IF \E i \in 1..Len(seq) : seq[i] = x
    THEN CHOOSE i \in 1..Len(seq) : seq[i] = x /\ \A j \in 1..(i - 1) : seq[j] # x
    ELSE 0
\* seq.slice(-n)
lastN(seq, n) == IF Len(seq) <= n THEN seq ELSE SubSeq(seq, Len(seq) - n + 1, Len(seq))

\* recentVersions.slice(0, currentIndex + 1) or recentVersions.slice(-5)
windowAt(recentVersions, currentIndex) ==
    IF currentIndex >= 1 THEN SubSeq(recentVersions, 1, currentIndex)
    ELSE lastN(recentVersions, 5)
windowOf(versions, currentVersion) ==
    windowAt(lastN(versions, maxVersionsToAnalyze),
             indexOf(lastN(versions, maxVersionsToAnalyze), currentVersion))
\* the versions whose consecutive pairs are diffed
versionsToAnalyze(version, versions) ==
    windowOf(versions, IF version # NoVersion THEN version ELSE versions[Len(versions)])

\* the version-jump finding as the map builds it
jumpFinding(jump) ==
    [type |-> "version-jump", fromVersion |-> jump.from, toVersion |-> jump.to,
     jumpType |-> jump.type]

\* the loop over versionsToAnalyze: one finding per pair with issues
changesOf(window, versionHistory) ==
    [i \in 1..(Len(window) - 1) |->
        compareVersionMetadata(versionHistory[window[i]], versionHistory[window[i + 1]])]
changedPairs(window, changes) ==
    LET pairs == SelectSeq([i \in 1..Len(changes) |-> i], LAMBDA i : changes[i].hasIssues)
    IN  [k \in 1..Len(pairs) |->
            [type |-> "changes", fromVersion |-> window[pairs[k]],
             toVersion |-> window[pairs[k] + 1], changes |-> changes[pairs[k]]]]
jumpFindings(versionJumps) == [k \in 1..Len(versionJumps) |-> jumpFinding(versionJumps[k])]
analysisOf(window, versionHistory, versionJumps) ==
    [findings |-> changedPairs(window, changesOf(window, versionHistory))
                  \o jumpFindings(versionJumps),
     versionsAnalyzed |-> Len(window),
     totalVersions |-> Cardinality(DOMAIN versionHistory)]
analyzeSorted(currentPackage, versionHistory, versions) ==
    analysisOf(versionsToAnalyze(currentPackage.version, versions), versionHistory,
               detectVersionJumps(versions))
\* _analyzeVersionChanges(currentPackage, versionHistory)
analyzeVersionChanges(currentPackage, versionHistory) ==
    analyzeSorted(currentPackage, versionHistory, sort("default", keysOf(DOMAIN versionHistory)))

\* ---- _calculateRisk ----
\* every flagged size change counted alike
findingRisk_FlatSize(finding) ==
    IF finding.type = "version-jump" THEN 1
    ELSE (IF finding.changes.sizeChange # NoSizeChange THEN 1 ELSE 0)
         + (IF finding.changes.newSuspiciousScripts > 0
            THEN finding.changes.newSuspiciousScripts * 2
            ELSE IF finding.changes.scriptChanges THEN 1 ELSE 0)
         + (IF finding.changes.dependencyChanges THEN 1 ELSE 0)

\* _calculateRisk: what one finding adds to riskScore
findingRisk(finding) ==
    IF finding.type = "version-jump" THEN 1
    ELSE (IF finding.changes.sizeChange = "high" THEN 3
          ELSE IF finding.changes.sizeChange # NoSizeChange THEN 1 ELSE 0)
         + (IF finding.changes.newSuspiciousScripts > 0
            THEN finding.changes.newSuspiciousScripts * 2
            ELSE IF finding.changes.scriptChanges THEN 1 ELSE 0)
         + (IF finding.changes.dependencyChanges THEN 1 ELSE 0)
\* _calculateRisk: does the finding set hasHighRisk
findingIsHighRisk(finding) ==
    /\ finding.type # "version-jump"
    /\ \/ finding.changes.sizeChange = "high"
       \/ finding.changes.newSuspiciousScripts > 0
RECURSIVE sumRisk(_)
sumRisk(findings) ==
    IF findings = <<>> THEN 0 ELSE findingRisk(findings[1]) + sumRisk(Tail(findings))

\* a deduction growing with the risk score
calculateRisk_Uncapped(weight, versionAnalysis) ==
    LET riskScore == sumRisk(versionAnalysis.findings)
        hasHighRisk == \E i \in 1..Len(versionAnalysis.findings) : findingIsHighRisk(versionAnalysis.findings[i])
    IN  [deduction |-> Floor05(weight) * riskScore,
         riskLevel |-> IF hasHighRisk \/ riskScore >= 5 THEN "high"
                       ELSE IF riskScore >= 3 THEN "medium"
                       ELSE IF riskScore >= 1 THEN "low" ELSE "none",
         riskScore |-> riskScore, hasHighRisk |-> hasHighRisk]

\* _calculateRisk(analysis); with no finding both sums are empty, which is
\* the early return of deduction 0 and riskLevel 'none'
calculateRisk(weight, versionAnalysis) ==
    LET riskScore == sumRisk(versionAnalysis.findings)
        hasHighRisk == \E i \in 1..Len(versionAnalysis.findings) : findingIsHighRisk(versionAnalysis.findings[i])
    IN  [deduction |-> IF hasHighRisk \/ riskScore >= 5 THEN weight
                       ELSE IF riskScore >= 3 THEN Floor075(weight)
                       ELSE IF riskScore >= 1 THEN Floor05(weight) ELSE 0,
         riskLevel |-> IF hasHighRisk \/ riskScore >= 5 THEN "high"
                       ELSE IF riskScore >= 3 THEN "medium"
                       ELSE IF riskScore >= 1 THEN "low" ELSE "none",
         riskScore |-> riskScore, hasHighRisk |-> hasHighRisk]

\* ---- evaluate ----
NoAnalysis == [findings |-> <<>>, versionsAnalyzed |-> 0, totalVersions |-> 0]
softMiss(reason) ==
    [deduction |-> 0, riskLevel |-> "none", reason |-> reason, analysis |-> NoAnalysis,
     riskScore |-> 0, hasHighRisk |-> FALSE]

resultWith(versionAnalysis, risk) ==
    [deduction |-> risk.deduction, riskLevel |-> risk.riskLevel, reason |-> "none",
     analysis |-> versionAnalysis, riskScore |-> risk.riskScore,
     hasHighRisk |-> risk.hasHighRisk]
\* evaluate: const { deduction, riskLevel } = this._calculateRisk(analysis)
resultOf(weight, versionAnalysis) ==
    resultWith(versionAnalysis, calculateRisk(weight, versionAnalysis))

IdleUpdate ==
    /\ ubWeight = 10
    /\ ubEnabled = TRUE
    /\ ubPackage = NullSnapshot
    /\ ubPc = "idle"
    /\ ubHistory = NoHistory
    /\ ubResult = NoRuleResult

InitUpdate ==
    /\ ubWeight \in UpdateWeights
    /\ ubEnabled \in BOOLEAN
    /\ ubPackage \in Snapshots
    /\ ubPc = "called"
    /\ ubHistory = NoHistory
    /\ ubResult = NoRuleResult

\* evaluate(packageData) up to await this._fetchVersionHistory(packageData.name)
evaluateUpdate ==
    /\ ubPc = "called"
    /\ IF ~ubEnabled
       THEN ubPc' = "done" /\ ubResult' = softMiss("Rule is disabled")
       ELSE IF ~ubPackage.present \/ ubPackage.name = ""
       THEN ubPc' = "done" /\ ubResult' = softMiss("Invalid package data")
       ELSE ubPc' = "fetching" /\ UNCHANGED ubResult
    /\ UNCHANGED <<ubWeight, ubEnabled, ubPackage, ubHistory>>

\* no catch around the fetch: evaluate rejects
fetchRejects_Uncaught(message) ==
    /\ ubPc = "fetching"
    /\ ubPc' = "threw"
    /\ ubHistory' = [kind |-> "rejected", versions |-> <<>>]
    /\ UNCHANGED <<ubWeight, ubEnabled, ubPackage, ubResult>>

\* registryClient.getAllVersions rejects: _fetchVersionHistory rethrows and
\* the catch of evaluate answers
fetchRejects(message) ==
    /\ ubPc = "fetching"
    /\ ubPc' = "done"
    /\ ubHistory' = [kind |-> "rejected", versions |-> <<>>]
    /\ ubResult' = softMiss("Could not analyze version history")
    /\ UNCHANGED <<ubWeight, ubEnabled, ubPackage>>

\* registryClient.getAllVersions resolves with null or undefined
fetchResolvesNull ==
    /\ ubPc = "fetching"
    /\ ubPc' = "done"
    /\ ubHistory' = [kind |-> "null", versions |-> <<>>]
    /\ ubResult' = softMiss("Insufficient version history for analysis")
    /\ UNCHANGED <<ubWeight, ubEnabled, ubPackage>>

\* registryClient.getAllVersions resolves with the versions: the rest of evaluate
fetchResolves(versionHistory) ==
    /\ ubPc = "fetching"
    /\ ubPc' = "done"
    /\ ubHistory' = [kind |-> "resolved", versions |-> versionHistory]
    /\ ubResult' =
          IF Cardinality(DOMAIN versionHistory) < 2
          THEN softMiss("Insufficient version history for analysis")
          ELSE resultOf(ubWeight, analyzeVersionChanges(ubPackage, versionHistory))
    /\ UNCHANGED <<ubWeight, ubEnabled, ubPackage>>

(***************************************************************************)
(* MaintainerSecurityRule and CommunitySignalsRule with their GitHubClient *)
(*                                                                         *)
(* Both rules query the source host through one GitHubClient and add up a  *)
(* totalRisk in halves, thirds of a point and whole points; the model      *)
(* counts it in tenths (0.5 is 5, 0.3 is 3, 1 is 10).  An answer of the    *)
(* host carries the traits of the data the rule looks at.                  *)
(***************************************************************************)
VARIABLES
    ghRule,              \* the rule whose evaluate is running
    ghWeight,            \* this.weight
    ghEnabled,           \* this.isEnabled()
    requireSecurityPolicy, \* this.requireSecurityPolicy
    ghPackage,           \* packageData: repository known or not, maintainers
    ghPc,                \* position of evaluate: the query it is awaiting
    ghFindings,          \* findings
    ghTotalRisk,         \* totalRisk, in tenths
    activityFindings,    \* findings of _checkRepositoryActivity
    ghIssues,            \* const issues of _checkRepositoryActivity
    ghIdx,               \* for (const maintainer of maintainers)
    rateLimitRemaining,  \* GitHubClient.rateLimitRemaining
    ghAnswers,           \* the responses the host gave, in order
    ghResult             \* the RuleResult evaluate resolved with

signalVars == <<ghRule, ghWeight, ghEnabled, requireSecurityPolicy, ghPackage, ghPc,
                ghFindings, ghTotalRisk, activityFindings, ghIssues, ghIdx,
                rateLimitRemaining, ghAnswers, ghResult>>

MaxMaintainers == 2

Tenths(n) == n * 10
Unknown == -1                  \* this.rateLimitRemaining = null
NoStatus == 0                  \* an Error without statusCode
NoData == {}
RateLimitExceeded == "GitHub API rate limit exceeded"
ApiError == "GitHub API error"
TypeError == "Cannot read properties of null"

\* what the rules look at in the data of an answer
UserData == {{}, {"new"}, {"new", "bot"}}
RepoData == {{}, {"archived"}, {"quiet", "few-stars"},
             {"archived", "disabled", "inactive", "few-stars"}}
CommitData == {{"none"}, {}, {"recent"}, {"recent", "frequent"}}
IssueData == {{}, {"recent"}, {"many-open"}}
PullData == {{}, {"recent"}}
ContentData == {{}, {"content"}, {"content", "disclosure"}}
DataOf(query) ==
    CASE query = "getUser" -> UserData
      [] query = "getRepository" -> RepoData
      [] query = "getCommits" -> CommitData
      [] query = "getIssues" -> IssueData
      [] query = "getPullRequests" -> PullData
      [] OTHER -> ContentData

\* the responses of the host: data, not found, quota exhausted, failure
Responses(query) ==
    {[statusCode |-> 200, remaining |-> 10, data |-> d] : d \in DataOf(query)}
    \cup {[statusCode |-> 404, remaining |-> 10, data |-> NoData],
          [statusCode |-> 403, remaining |-> 0, data |-> NoData],
          [statusCode |-> 500, remaining |-> 10, data |-> NoData]}

resolved(found, value) ==
    [settled |-> "resolved", found |-> found, value |-> value,
     message |-> "", statusCode |-> NoStatus]
rejected(message, statusCode) ==
    [settled |-> "rejected", found |-> FALSE, value |-> NoData,
     message |-> message, statusCode |-> statusCode]

\* GitHubClient._request: what the promise settles with
request(res) ==
    IF res.statusCode = 403 /\ res.remaining = 0
    THEN rejected(RateLimitExceeded, NoStatus)
    ELSE IF res.statusCode >= 200 /\ res.statusCode < 300
    THEN resolved(TRUE, res.data)
    ELSE IF res.statusCode = 404
    THEN resolved(FALSE, NoData)
    ELSE rejected(ApiError, res.statusCode)

\* getUser, getRepository, getRepositoryContents: 404 is null, the rest is rethrown
getOrNull(res) ==
    LET r == request(res)
    IN  IF r.settled = "rejected" /\ r.statusCode = 404 THEN resolved(FALSE, NoData) ELSE r

\* GitHubClient.hasSecurityPolicy: every error is answered with false
hasSecurityPolicy(res) ==
    LET r == request(res)
    IN  resolved(r.settled = "resolved" /\ r.found, NoData)

signalFinding(type, message) == [type |-> type, message |-> message]
NoGhResult == [deduction |-> -1, reason |-> "", riskLevel |-> "", findings |-> <<>>, totalRisk |-> -1]
earlyResult(reason) ==
    [deduction |-> 0, reason |-> reason, riskLevel |-> "none", findings |-> <<>>, totalRisk |-> -1]

\* the deduction and the riskLevel both rules derive from totalRisk
signalDeduction(weight, totalRisk) ==
    IF totalRisk >= Tenths(3) THEN weight
    ELSE IF totalRisk >= Tenths(2) THEN Floor075(weight)
    ELSE IF totalRisk >= Tenths(1) THEN Floor05(weight)
    ELSE 0
signalRiskLevel(totalRisk) ==
    IF totalRisk >= Tenths(3) THEN "high"
    ELSE IF totalRisk >= Tenths(2) THEN "medium"
    ELSE IF totalRisk >= Tenths(1) THEN "low"
    ELSE "none"
signalResult(weight, findings, totalRisk) ==
    [deduction |-> signalDeduction(weight, totalRisk), reason |-> "",
     riskLevel |-> signalRiskLevel(totalRisk), findings |-> findings,
     totalRisk |-> totalRisk]

\* findings without an error message
plain(types) == [i \in 1..Len(types) |-> signalFinding(types[i], "")]

\* MaintainerSecurityRule._checkMaintainer: the findings of one account
checkMaintainer(r) ==
    IF r.settled = "resolved" /\ r.found
    THEN plain(SelectSeq(<<"new-account", "bot-account">>,
                         LAMBDA t : (t = "new-account" /\ "new" \in r.value)
                                    \/ (t = "bot-account" /\ "bot" \in r.value)))
    ELSE <<>>
\* MaintainerSecurityRule._analyzeRepository
analyzeRepository(repoInfo) ==
    plain(SelectSeq(<<"archived-repo", "disabled-repo", "inactive-repo">>,
                    LAMBDA t : (t = "archived-repo" /\ "archived" \in repoInfo)
                               \/ (t = "disabled-repo" /\ "disabled" \in repoInfo)
                               \/ (t = "inactive-repo" /\ "inactive" \in repoInfo)))
\* CommunitySignalsRule._checkRepositoryHealth
checkRepositoryHealth(repoInfo) ==
    plain(SelectSeq(<<"archived-repo", "disabled-repo", "inactive-repo",
                      "low-activity-repo", "low-community-engagement">>,
                    LAMBDA t : (t = "archived-repo" /\ "archived" \in repoInfo)
                               \/ (t = "disabled-repo" /\ "disabled" \in repoInfo)
                               \/ (t = "inactive-repo" /\ "inactive" \in repoInfo)
                               \/ (t = "low-activity-repo" /\ "inactive" \notin repoInfo
                                                           /\ "quiet" \in repoInfo)
                               \/ (t = "low-community-engagement" /\ "few-stars" \in repoInfo)))
\* _checkRepositoryActivity: the commit part
commitFindings(r) ==
    IF r.settled = "rejected" THEN <<signalFinding("commit-check-error", r.message)>>
    ELSE IF ~r.found \/ "none" \in r.value THEN plain(<<"no-recent-commits">>)
    ELSE IF "recent" \notin r.value THEN plain(<<"low-commit-activity">>)
    ELSE IF "frequent" \notin r.value THEN plain(<<"low-commit-frequency">>)
    ELSE <<>>
\* _checkRepositoryActivity: the issue and pull-request part
issueFindings(issues, pulls) ==
    IF issues.settled = "rejected" THEN <<signalFinding("issue-pr-check-error", issues.message)>>
    ELSE IF pulls.settled = "rejected" THEN <<signalFinding("issue-pr-check-error", pulls.message)>>
    ELSE IF ~issues.found \/ ~pulls.found THEN <<signalFinding("issue-pr-check-error", TypeError)>>
    ELSE plain(SelectSeq(<<"no-recent-community-activity", "many-open-issues">>,
                         LAMBDA t : (t = "no-recent-community-activity"
                                       /\ "recent" \notin issues.value
                                       /\ "recent" \notin pulls.value)
                                    \/ (t = "many-open-issues" /\ "many-open" \in issues.value)))

Maintainers == SeqsUpTo({"user", "anonymous"}, MaxMaintainers)
GhPackages == {[repository |-> r, maintainers |-> m] : r \in BOOLEAN, m \in Maintainers}
\* the next maintainer, from position i on, with a GitHub username (0: none)
nextUser(maintainers, i) ==
    LET S == {j \in i..Len(maintainers) : maintainers[j] = "user"}
    IN  IF S = {} THEN 0 ELSE CHOOSE j \in S : \A k \in S : j <= k

IdleSignals ==
    /\ ghRule = "none" /\ ghWeight = 0 /\ ghEnabled = FALSE
    /\ requireSecurityPolicy = FALSE
    /\ ghPackage = [repository |-> FALSE, maintainers |-> <<>>]
    /\ ghPc = "idle" /\ ghFindings = <<>> /\ ghTotalRisk = 0
    /\ activityFindings = <<>> /\ ghIssues = resolved(FALSE, NoData) /\ ghIdx = 0
    /\ rateLimitRemaining = Unknown /\ ghAnswers = <<>> /\ ghResult = NoGhResult

InitSignals ==
    /\ \/ ghRule = "maintainer-security" /\ ghWeight = 15
          /\ requireSecurityPolicy \in BOOLEAN
          /\ ghPackage \in GhPackages
       \/ ghRule = "community-signals" /\ ghWeight = 5
          /\ requireSecurityPolicy = TRUE
          /\ ghPackage \in {p \in GhPackages : p.maintainers = <<>>}
    /\ ghEnabled \in BOOLEAN
    /\ ghPc = "called" /\ ghFindings = <<>> /\ ghTotalRisk = 0
    /\ activityFindings = <<>> /\ ghIssues = resolved(FALSE, NoData) /\ ghIdx = 0
    /\ rateLimitRemaining = Unknown /\ ghAnswers = <<>> /\ ghResult = NoGhResult

ghConfig == <<ghRule, ghWeight, ghEnabled, requireSecurityPolicy, ghPackage>>

\* the response callback of _request: the headers and the trace of answers
answered(query, res) ==
    /\ rateLimitRemaining' = res.remaining
    /\ ghAnswers' = Append(ghAnswers, [query |-> query, statusCode |-> res.statusCode,
                                       remaining |-> res.remaining])

resolveWith(findings, totalRisk) ==
    /\ ghPc' = "done"
    /\ ghFindings' = findings
    /\ ghTotalRisk' = totalRisk
    /\ ghResult' = signalResult(ghWeight, findings, totalRisk)

\* MaintainerSecurityRule.evaluate, step 2 up to the next await
checkMaintainers(findings, totalRisk) ==
    IF Len(ghPackage.maintainers) = 0
    THEN /\ ghFindings' = Append(findings, signalFinding("no-maintainers", ""))
         /\ ghTotalRisk' = totalRisk + 5
         /\ ghPc' = "getRepository" /\ UNCHANGED <<ghIdx, ghResult>>
    ELSE IF nextUser(ghPackage.maintainers, 1) = 0
    THEN /\ ghFindings' = findings /\ ghTotalRisk' = totalRisk
         /\ ghPc' = "getRepository" /\ UNCHANGED <<ghIdx, ghResult>>
    ELSE /\ ghFindings' = findings /\ ghTotalRisk' = totalRisk
         /\ ghPc' = "getUser" /\ ghIdx' = nextUser(ghPackage.maintainers, 1)
         /\ UNCHANGED ghResult

\* evaluate of either rule, up to its first await
evaluateSignals ==
    /\ ghPc = "called"
    /\ IF ~ghEnabled
       THEN /\ ghPc' = "done" /\ ghResult' = earlyResult("Rule is disabled")
            /\ UNCHANGED <<ghFindings, ghTotalRisk, ghIdx>>
       ELSE IF ~ghPackage.repository
       THEN /\ ghPc' = "done" /\ ghResult' = earlyResult("No repository information found")
            /\ UNCHANGED <<ghFindings, ghTotalRisk, ghIdx>>
       ELSE IF ghRule = "community-signals"
       THEN /\ ghPc' = "getCommits"
            /\ UNCHANGED <<ghFindings, ghTotalRisk, ghIdx, ghResult>>
       ELSE IF requireSecurityPolicy
       THEN /\ ghPc' = "hasSecurityPolicy"
            /\ UNCHANGED <<ghFindings, ghTotalRisk, ghIdx, ghResult>>
       ELSE checkMaintainers(ghFindings, ghTotalRisk)
    /\ UNCHANGED <<ghConfig, activityFindings, ghIssues, rateLimitRemaining, ghAnswers>>

\* await githubClient.hasSecurityPolicy(owner, repo) settles
securityPolicyAnswered(res) ==
    /\ ghPc = "hasSecurityPolicy"
    /\ answered("hasSecurityPolicy", res)
    /\ LET r == hasSecurityPolicy(res)
           hasPolicy == r.settled = "resolved" /\ r.found
           missing == signalFinding("no-security-policy", "")
           failed == signalFinding("security-policy-check-error", r.message)
       IN  IF ghRule = "maintainer-security"
           THEN IF r.settled = "rejected"
                THEN checkMaintainers(Append(ghFindings, failed), ghTotalRisk)
                ELSE IF hasPolicy THEN checkMaintainers(ghFindings, ghTotalRisk)
                ELSE checkMaintainers(Append(ghFindings, missing), ghTotalRisk + Tenths(1))
           ELSE /\ IF r.settled = "rejected"
                   THEN /\ ghFindings' = Append(ghFindings, failed)
                        /\ ghTotalRisk' = ghTotalRisk /\ ghPc' = "getRepository"
                   ELSE IF hasPolicy
                   THEN /\ ghPc' = "getRepositoryContents"
                        /\ UNCHANGED <<ghFindings, ghTotalRisk>>
                   ELSE /\ ghFindings' = Append(ghFindings, missing)
                        /\ ghTotalRisk' = ghTotalRisk + 5 /\ ghPc' = "getRepository"
                /\ UNCHANGED <<ghIdx, ghResult>>
    /\ UNCHANGED <<ghConfig, activityFindings, ghIssues>>

\* MaintainerSecurityRule._checkMaintainer: await githubClient.getUser settles
userAnswered(res) ==
    /\ ghPc = "getUser"
    /\ answered("getUser", res)
    /\ LET maintainerFindings == checkMaintainer(getOrNull(res))
           next == nextUser(ghPackage.maintainers, ghIdx + 1)
       IN  /\ ghFindings' = ghFindings \o maintainerFindings
           /\ ghTotalRisk' = ghTotalRisk + Len(maintainerFindings) * 5
           /\ IF next = 0
              THEN ghPc' = "getRepository" /\ UNCHANGED ghIdx
              ELSE ghPc' = "getUser" /\ ghIdx' = next
    /\ UNCHANGED <<ghConfig, activityFindings, ghIssues, ghResult>>

\* _checkRepositoryActivity: await githubClient.getCommits settles
commitsAnswered(res) ==
    /\ ghPc = "getCommits"
    /\ answered("getCommits", res)
    /\ activityFindings' = commitFindings(request(res))
    /\ ghPc' = "getIssues"
    /\ UNCHANGED <<ghConfig, ghFindings, ghTotalRisk, ghIssues, ghIdx, ghResult>>

\* evaluate: findings.push(...activityFindings); totalRisk += length * 0.5
activityChecked(found) ==
    /\ activityFindings' = found
    /\ ghFindings' = ghFindings \o found
    /\ ghTotalRisk' = ghTotalRisk + Len(found) * 5
    /\ ghPc' = "hasSecurityPolicy"

\* _checkRepositoryActivity: await githubClient.getIssues settles
issuesAnswered(res) ==
    /\ ghPc = "getIssues"
    /\ answered("getIssues", res)
    /\ LET r == request(res)
       IN  IF r.settled = "rejected"
           THEN /\ activityChecked(activityFindings \o issueFindings(r, r))
                /\ UNCHANGED ghIssues
           ELSE /\ ghIssues' = r /\ ghPc' = "getPullRequests"
                /\ UNCHANGED <<activityFindings, ghFindings, ghTotalRisk>>
    /\ UNCHANGED <<ghConfig, ghIdx, ghResult>>

\* _checkRepositoryActivity: await githubClient.getPullRequests settles
pullRequestsAnswered(res) ==
    /\ ghPc = "getPullRequests"
    /\ answered("getPullRequests", res)
    /\ activityChecked(activityFindings \o issueFindings(ghIssues, request(res)))
    /\ UNCHANGED <<ghConfig, ghIssues, ghIdx, ghResult>>

\* _checkSecurityPolicy: await githubClient.getRepositoryContents settles
contentsAnswered(res) ==
    /\ ghPc = "getRepositoryContents"
    /\ answered("getRepositoryContents", res)
    /\ LET r == getOrNull(res)
           unclear == r.settled = "resolved" /\ r.found
                      /\ "content" \in r.value /\ "disclosure" \notin r.value
       IN  IF unclear
           THEN /\ ghFindings' = Append(ghFindings, signalFinding("no-responsible-disclosure", ""))
                /\ ghTotalRisk' = ghTotalRisk + 5
           ELSE UNCHANGED <<ghFindings, ghTotalRisk>>
    /\ ghPc' = "getRepository"
    /\ UNCHANGED <<ghConfig, activityFindings, ghIssues, ghIdx, ghResult>>

\* evaluate, step 3: await githubClient.getRepository settles; the result
repositoryAnswered(res) ==
    /\ ghPc = "getRepository"
    /\ answered("getRepository", res)
    /\ LET r == getOrNull(res)
           repoFindings ==
               IF r.settled = "resolved" /\ r.found
               THEN IF ghRule = "maintainer-security"
                    THEN analyzeRepository(r.value)
                    ELSE checkRepositoryHealth(r.value)
               ELSE <<>>
           each == IF ghRule = "maintainer-security" THEN Tenths(1) ELSE 3
       IN  resolveWith(ghFindings \o repoFindings, ghTotalRisk + Len(repoFindings) * each)
    /\ UNCHANGED <<ghConfig, activityFindings, ghIssues, ghIdx>>

(***************************************************************************)
(* AdvisoryClient                                                          *)
(*                                                                         *)
(* An advisory is its id and the source it came from; Date.now() is a      *)
(* clock that ticks between the steps of a call.                           *)
(***************************************************************************)
VARIABLES
    advCache,        \* this.cache: cacheKey -> { data, timestamp }
    now,             \* Date.now()
    advPc,           \* where getAdvisories is
    advKey,          \* const cacheKey of the call
    advisories,      \* const advisories = []
    advFailed,       \* history: the sources whose fetch was caught in this call
    staleKeys,       \* history: keys whose entry was stored by a call with a caught fetch
    advReturned      \* history: what the latest call resolved with or threw

advisoryVars == <<advCache, now, advPc, advKey, advisories, advFailed, staleKeys, advReturned>>

MaxTime == 3
cacheTTL == 2                  \* this.cacheTTL, in ticks of the clock (a tick is half the TTL)
NoTimestamp == -1              \* this.cache.get(cacheKey) is undefined
NoEntry == [data |-> <<>>, timestamp |-> NoTimestamp]
NoKey == <<"", "">>
NotReturned == [outcome |-> "none", data |-> <<>>, fromCache |-> FALSE, stale |-> FALSE]

AdvisoryPackages == {"", "lodash"}
AdvisoryVersions == {"null", "4.17.21"}
\* `${packageName}@${version || 'latest'}`
cacheKeyOf(packageName, version) ==
    <<packageName, IF version = "null" THEN "latest" ELSE version>>
CacheKeys == {cacheKeyOf(p, v) : p \in AdvisoryPackages \ {""}, v \in AdvisoryVersions}

\* what a source answers: a status and a body, or nothing before the timeout
AdvisoryResponses(source) ==
    {[statusCode |-> 200, body |-> "array", ids |-> ids] :
         ids \in IF source = "npm" THEN {<<>>, <<"CVE-1">>}
                 ELSE {<<>>, <<"CVE-1">>, <<"GHSA-2">>}}
    \cup {[statusCode |-> 200, body |-> "invalid", ids |-> <<>>],
          [statusCode |-> 404, body |-> "", ids |-> <<>>],
          [statusCode |-> 500, body |-> "", ids |-> <<>>],
          [statusCode |-> NoResponse, body |-> "", ids |-> <<>>]}

\* _fetch(url): how the promise settles
fetch(res) ==
    IF res.statusCode = NoResponse
    THEN [settled |-> "rejected", statusCode |-> NoResponse, isArray |-> FALSE, ids |-> <<>>]
    ELSE IF res.statusCode >= 200 /\ res.statusCode < 300
    THEN IF res.body = "invalid"
         THEN [settled |-> "rejected", statusCode |-> NoResponse, isArray |-> FALSE, ids |-> <<>>]
         ELSE [settled |-> "resolved", statusCode |-> NoResponse,
               isArray |-> res.body = "array", ids |-> res.ids]
    ELSE IF res.statusCode = 404
    THEN [settled |-> "resolved", statusCode |-> NoResponse, isArray |-> FALSE, ids |-> <<>>]
    ELSE [settled |-> "rejected", statusCode |-> res.statusCode, isArray |-> FALSE, ids |-> <<>>]

\* _getNpmAdvisories / _getGitHubAdvisories: the normalized advisories, or
\* the error rethrown
sourceAdvisories(source, res) ==
    LET r == fetch(res)
    IN  IF r.settled = "resolved"
        THEN [threw |-> FALSE,
              list |-> IF r.isArray
                       THEN [i \in 1..Len(r.ids) |-> [id |-> r.ids[i], source |-> source]]
                       ELSE <<>>]
        ELSE IF r.statusCode = 404
        THEN [threw |-> FALSE, list |-> <<>>]
        ELSE [threw |-> TRUE, list |-> <<>>]

\* _deduplicateAdvisories: the first advisory of each id
deduplicateAdvisories(list) ==
    LET first(i) == \A j \in 1..(i - 1) : list[j].id # list[i].id
        keep[i \in 0..Len(list)] ==
            IF i = 0 THEN <<>>
            ELSE IF first(i) THEN Append(keep[i - 1], list[i]) ELSE keep[i - 1]
    IN  keep[Len(list)]

IdleAdvisories ==
    /\ advCache = [k \in CacheKeys |-> NoEntry]
    /\ now = 0
    /\ advPc = "idle"
    /\ advKey = NoKey
    /\ advisories = <<>>
    /\ advFailed = {}
    /\ staleKeys = {}
    /\ advReturned = NotReturned

\* getAdvisories(packageName, version), up to the first await
getAdvisories(packageName, version) ==
    /\ advPc = "idle"
    /\ IF packageName = ""
       THEN /\ advReturned' = [NotReturned EXCEPT !.outcome = "Package name is required"]
            /\ UNCHANGED <<advPc, advKey, advisories, advFailed>>
       ELSE LET cacheKey == cacheKeyOf(packageName, version)
                cached == advCache[cacheKey]
            IN  IF cached # NoEntry /\ now - cached.timestamp < cacheTTL
                THEN /\ advReturned' = [outcome |-> "returned", data |-> cached.data,
                                        fromCache |-> TRUE, stale |-> cacheKey \in staleKeys]
                     /\ advKey' = cacheKey
                     /\ UNCHANGED <<advPc, advisories, advFailed>>
                ELSE /\ advPc' = "npm"
                     /\ advKey' = cacheKey
                     /\ advisories' = <<>>
                     /\ advFailed' = {}
                     /\ UNCHANGED advReturned
    /\ UNCHANGED <<advCache, now, staleKeys>>

\* await this._getNpmAdvisories(...) settles: push, or warn and go on
npmAnswered(res) ==
    /\ advPc = "npm"
    /\ LET npmAdvisories == sourceAdvisories("npm", res)
       IN  /\ advisories' = advisories \o npmAdvisories.list
           /\ advFailed' = IF npmAdvisories.threw THEN advFailed \cup {"npm"} ELSE advFailed
    /\ advPc' = "github"
    /\ UNCHANGED <<advCache, now, advKey, staleKeys, advReturned>>

\* await this._getGitHubAdvisories(...) settles: push, or warn and go on;
\* then deduplicate, cache and return
githubAnswered(res) ==
    /\ advPc = "github"
    /\ LET githubAdvisories == sourceAdvisories("github", res)
           failed == IF githubAdvisories.threw THEN advFailed \cup {"github"} ELSE advFailed
           uniqueAdvisories == deduplicateAdvisories(advisories \o githubAdvisories.list)
       IN  /\ advisories' = advisories \o githubAdvisories.list
           /\ advFailed' = failed
           /\ advCache' = [advCache EXCEPT ![advKey] =
                               [data |-> uniqueAdvisories, timestamp |-> now]]
           /\ staleKeys' = IF failed # {} THEN staleKeys \cup {advKey} ELSE staleKeys \ {advKey}
           /\ advReturned' = [outcome |-> "returned", data |-> uniqueAdvisories,
                              fromCache |-> FALSE, stale |-> failed # {}]
    /\ advPc' = "idle"
    /\ UNCHANGED <<now, advKey>>

\* clearCache()
clearCache ==
    /\ advCache' = [k \in CacheKeys |-> NoEntry]
    /\ staleKeys' = {}
    /\ UNCHANGED <<now, advPc, advKey, advisories, advFailed, advReturned>>

\* time passes
tick ==
    /\ now < MaxTime
    /\ now' = now + 1
    /\ UNCHANGED <<advCache, advPc, advKey, advisories, advFailed, staleKeys, advReturned>>

(***************************************************************************)
(* Specifications: the calculator, the analyzer and the rules do not share *)
(* state.                                                                  *)
(***************************************************************************)
VARIABLE previous    \* history: the inputs and the score of the latest call that resolved
NoPrevious == [config |-> [baseScore |-> 0, minScore |-> 0, maxScore |-> 0], rules |-> <<>>,
               packageData |-> NullPackage, score |-> -1]

vars == <<calcVars, tarVars, lifecycleVars, updateVars, signalVars, previous, advisoryVars>>
DefaultConfig == [baseScore |-> Milli(100), minScore |-> Milli(0), maxScore |-> Milli(100)]

Init == InitCalculator /\ InitTarballAnalyzer /\ IdleLifecycle /\ IdleUpdate /\ IdleSignals /\ previous = NoPrevious /\ IdleAdvisories
Next ==
    \/ \E rule \in Rules :
          registerRule(rule) /\ UNCHANGED <<tarVars, lifecycleVars, updateVars, signalVars, previous, advisoryVars>>
    \/ \E pd \in Packages \cup {NullPackage} :
          calculateScore(pd) /\ UNCHANGED <<tarVars, lifecycleVars, updateVars, signalVars, previous, advisoryVars>>
    \/ evaluateSettles /\ UNCHANGED <<tarVars, lifecycleVars, updateVars, signalVars, previous, advisoryVars>>
Spec == Init /\ [][Next]_vars

InitTarball ==
    /\ InitTarballAnalyzer /\ InitCalculator /\ config = DefaultConfig
    /\ IdleLifecycle /\ IdleUpdate /\ IdleSignals /\ previous = NoPrevious /\ IdleAdvisories
NextTarball ==
    \/ \E c \in Calls, url \in TarballUrls, name \in PackageNames :
          analyzeTarball(c, url, name) /\ UNCHANGED <<calcVars, lifecycleVars, updateVars, signalVars, previous, advisoryVars>>
    \/ \E c \in Calls : mkdirTemp(c) /\ UNCHANGED <<calcVars, lifecycleVars, updateVars, signalVars, previous, advisoryVars>>
    \/ \E c \in Calls, statusCode \in {200, 404} : response(c, statusCode) /\ UNCHANGED <<calcVars, lifecycleVars, updateVars, signalVars, previous, advisoryVars>>
    \/ \E c \in Calls, message \in {"ECONNRESET", "Download timeout"} :
          downloadFails(c, message) /\ UNCHANGED <<calcVars, lifecycleVars, updateVars, signalVars, previous, advisoryVars>>
    \/ \E c \in Calls : downloadFinishes(c) /\ UNCHANGED <<calcVars, lifecycleVars, updateVars, signalVars, previous, advisoryVars>>
    \/ \E c \in Calls : extractStarts(c) /\ UNCHANGED <<calcVars, lifecycleVars, updateVars, signalVars, previous, advisoryVars>>
    \/ \E c \in Calls, header \in Entries : entry(c, header) /\ UNCHANGED <<calcVars, lifecycleVars, updateVars, signalVars, previous, advisoryVars>>
    \/ \E c \in Calls : extractFails(c) /\ UNCHANGED <<calcVars, lifecycleVars, updateVars, signalVars, previous, advisoryVars>>
    \/ \E c \in Calls : analyzeContents(c) /\ UNCHANGED <<calcVars, lifecycleVars, updateVars, signalVars, previous, advisoryVars>>
    \/ \E c \in Calls : cleanupExtracted(c) /\ UNCHANGED <<calcVars, lifecycleVars, updateVars, signalVars, previous, advisoryVars>>
    \/ \E c \in Calls : cleanupTemp(c) /\ UNCHANGED <<calcVars, lifecycleVars, updateVars, signalVars, previous, advisoryVars>>
    \/ \E c \in Calls, filePath \in ReadPaths : getFileContent(c, filePath) /\ UNCHANGED <<calcVars, lifecycleVars, updateVars, signalVars, previous, advisoryVars>>
SpecTarball == InitTarball /\ [][NextTarball]_vars

InitRules ==
    /\ InitCalculator /\ config = DefaultConfig /\ InitTarballAnalyzer
    /\ \/ InitLifecycle /\ IdleUpdate
       \/ IdleLifecycle /\ InitUpdate
    /\ IdleSignals /\ previous = NoPrevious /\ IdleAdvisories
NextRules ==
    \/ evaluateLifecycle /\ UNCHANGED <<calcVars, tarVars, updateVars, signalVars, previous, advisoryVars>>
    \/ evaluateUpdate /\ UNCHANGED <<calcVars, tarVars, lifecycleVars, signalVars, previous, advisoryVars>>
    \/ \E message \in {"Network error"} :
          fetchRejects(message) /\ UNCHANGED <<calcVars, tarVars, lifecycleVars, signalVars, previous, advisoryVars>>
    \/ fetchResolvesNull /\ UNCHANGED <<calcVars, tarVars, lifecycleVars, signalVars, previous, advisoryVars>>
    \/ /\ ubPc = "fetching"
       /\ \E versionHistory \in Histories :
             fetchResolves(versionHistory) /\ UNCHANGED <<calcVars, tarVars, lifecycleVars, signalVars, previous, advisoryVars>>
SpecRules == InitRules /\ [][NextRules]_vars

InitSignalRules ==
    /\ InitCalculator /\ config = DefaultConfig /\ InitTarballAnalyzer
    /\ IdleLifecycle /\ IdleUpdate /\ InitSignals /\ previous = NoPrevious /\ IdleAdvisories
NextSignals ==
    \/ evaluateSignals /\ UNCHANGED <<calcVars, tarVars, lifecycleVars, updateVars, previous, advisoryVars>>
    \/ \E res \in Responses("hasSecurityPolicy") :
          securityPolicyAnswered(res) /\ UNCHANGED <<calcVars, tarVars, lifecycleVars, updateVars, previous, advisoryVars>>
    \/ \E res \in Responses("getUser") :
          userAnswered(res) /\ UNCHANGED <<calcVars, tarVars, lifecycleVars, updateVars, previous, advisoryVars>>
    \/ \E res \in Responses("getCommits") :
          commitsAnswered(res) /\ UNCHANGED <<calcVars, tarVars, lifecycleVars, updateVars, previous, advisoryVars>>
    \/ \E res \in Responses("getIssues") :
          issuesAnswered(res) /\ UNCHANGED <<calcVars, tarVars, lifecycleVars, updateVars, previous, advisoryVars>>
    \/ \E res \in Responses("getPullRequests") :
          pullRequestsAnswered(res) /\ UNCHANGED <<calcVars, tarVars, lifecycleVars, updateVars, previous, advisoryVars>>
    \/ \E res \in Responses("getRepositoryContents") :
          contentsAnswered(res) /\ UNCHANGED <<calcVars, tarVars, lifecycleVars, updateVars, previous, advisoryVars>>
    \/ \E res \in Responses("getRepository") :
          repositoryAnswered(res) /\ UNCHANGED <<calcVars, tarVars, lifecycleVars, updateVars, previous, advisoryVars>>
SpecSignals == InitSignalRules /\ [][NextSignals]_vars

\* calls of calculateScore one after the other, rules registered in between
RepeatRules ==
    {r \in Rules : r.outcome \in {[kind |-> "throw", message |-> "Rule error"],
                                  [kind |-> "ok", result |-> [deduction |-> 10004]],
                                  [kind |-> "ok", result |-> [deduction |-> Milli(5), bonus |-> 10001,
                                                              riskLevel |-> "low"]]}}
InitRepeat == Init /\ config = DefaultConfig
NextRepeat ==
    \/ \E rule \in RepeatRules :
          /\ registerRule(rule)
          /\ UNCHANGED <<tarVars, lifecycleVars, updateVars, signalVars, previous, advisoryVars>>
    \/ \E pd \in Packages \cup {NullPackage} :
          /\ calculateScore(pd)
          /\ previous' = IF pc = "returned"
                         THEN [config |-> config, rules |-> rules,
                               packageData |-> packageData, score |-> returned.score]
                         ELSE previous
          /\ UNCHANGED <<tarVars, lifecycleVars, updateVars, signalVars, advisoryVars>>
    \/ /\ evaluateSettles
       /\ UNCHANGED <<tarVars, lifecycleVars, updateVars, signalVars, previous, advisoryVars>>
SpecRepeat == InitRepeat /\ [][NextRepeat]_vars

\* calls of getAdvisories one after the other while the clock runs
InitAdvisories == Init /\ config = DefaultConfig
NextAdvisories ==
    \/ \E packageName \in AdvisoryPackages, version \in AdvisoryVersions :
          getAdvisories(packageName, version)
          /\ UNCHANGED <<calcVars, tarVars, lifecycleVars, updateVars, signalVars, previous>>
    \/ \E res \in AdvisoryResponses("npm") :
          npmAnswered(res)
          /\ UNCHANGED <<calcVars, tarVars, lifecycleVars, updateVars, signalVars, previous>>
    \/ \E res \in AdvisoryResponses("github") :
          githubAnswered(res)
          /\ UNCHANGED <<calcVars, tarVars, lifecycleVars, updateVars, signalVars, previous>>
    \/ clearCache /\ UNCHANGED <<calcVars, tarVars, lifecycleVars, updateVars, signalVars, previous>>
    \/ tick /\ UNCHANGED <<calcVars, tarVars, lifecycleVars, updateVars, signalVars, previous>>
SpecAdvisories == InitAdvisories /\ [][NextAdvisories]_vars

(***************************************************************************)
(* Properties of the score calculator                                      *)
(***************************************************************************)
Positions(seq) == 1..Len(seq)
Threw(rule) == rule.outcome.kind = "throw"

\* C1: every ScoreResult returned by calculateScore has
\* minScore <= score <= maxScore, whatever the base score and however large
\* the deductions and bonuses of the rules.
C1_ClampInvariant ==
    returned # NoResult =>
        /\ config.minScore <= returned.score
        /\ returned.score <= config.maxScore

\* a call returned although its running score had left the range on both
\* occasions the clamp guards: below minScore here
C1_Witness ==
    /\ pc = "returned"
    /\ score < config.minScore
    /\ Len(rules) > 0

\* C2: a rule whose evaluate rejects does not make calculateScore reject:
\* the rule gets an entry with riskLevel "error", deduction 0 and bonus 0,
\* the rules after it are still evaluated, and the call goes on to return.
ErrorEntry(rule) ==
    [ruleName |-> rule.name, deduction |-> 0, bonus |-> 0, riskLevel |-> "error"]

C2_RuleFailureIsContained ==
    /\ pc = "threw" => evalLog = <<>>
    /\ \A i \in Positions(rules) :
          (Threw(rules[i]) /\ (pc = "returned" \/ (pc = "awaiting" /\ i < idx))) =>
              /\ Len(ruleResults) >= i
              /\ ruleResults[i] = ErrorEntry(rules[i])
              /\ pc = "awaiting" => evalLog[Len(evalLog)] = <<"start", rules[idx].name>>
              /\ pc = "returned" =>
                    /\ returned # NoResult
                    /\ returned.score \in Int
                    /\ \A j \in (i + 1)..Len(rules) :
                          \E k \in Positions(evalLog) : evalLog[k] = <<"end", rules[j].name>>

\* a call returned after its first rule rejected and its second resolved
C2_Witness ==
    /\ pc = "returned"
    /\ Len(rules) = 2
    /\ Threw(rules[1])
    /\ ~Threw(rules[2])

\* C6: the returned score is the base score minus the deductions plus the
\* bonuses of the rules that did not reject, clamped to [minScore, maxScore]
\* and rounded to two decimals.
RECURSIVE NetOf(_)
NetOf(rs) ==
    IF rs = <<>> THEN 0
    ELSE LET r == Head(rs)
             d == IF ~Threw(r) /\ "deduction" \in DOMAIN r.outcome.result
                  THEN r.outcome.result.deduction ELSE 0
             b == IF ~Threw(r) /\ "bonus" \in DOMAIN r.outcome.result
                  THEN r.outcome.result.bonus ELSE 0
         IN  (b - d) + NetOf(Tail(rs))

ClampedTo(lo, hi, x) == IF x < lo THEN lo ELSE IF x > hi THEN hi ELSE x

\* y is x rounded to the nearest hundredth, halves going up
IsRoundedTo2(x, y) == y % 10 = 0 /\ x - 5 < y /\ y <= x + 5

C6_ScoreFormula ==
    returned # NoResult =>
        IsRoundedTo2(
            ClampedTo(config.minScore, config.maxScore, config.baseScore + NetOf(rules)),
            returned.score)

\* a call returned with a rejected rule, a bonus, and a running score that
\* is not a whole number of hundredths
C6_Witness ==
    /\ pc = "returned"
    /\ \E i \in Positions(rules) : Threw(rules[i])
    /\ \E i \in Positions(ruleResults) : ruleResults[i].bonus > 0
    /\ score % 10 # 0
    /\ returned.score # score

\* C7: the rules are evaluated one at a time in the order of the rules
\* array: an evaluate starts only after the previous one settled, and
\* ruleResults holds one entry per rule in that order.
C7_SequentialInOrder ==
    /\ \A k \in Positions(evalLog) :
          evalLog[k] = <<IF k % 2 = 1 THEN "start" ELSE "end", rules[(k + 1) \div 2].name>>
    /\ \A i \in Positions(ruleResults) :
          i <= Len(rules) /\ ruleResults[i].ruleName = rules[i].name
    /\ pc = "awaiting" => Len(evalLog) = 2 * idx - 1 /\ Len(ruleResults) = idx - 1
    /\ pc = "returned" =>
          /\ Len(evalLog) = 2 * Len(rules)
          /\ Len(ruleResults) = Len(rules)
          /\ returned.ruleResults = ruleResults

\* the second of two rules is being awaited while the first one's entry,
\* an error entry, holds position 1
C7_Witness ==
    /\ pc = "awaiting"
    /\ idx = 2
    /\ ruleResults[1].riskLevel = "error"

\* C8: calculateScore with an absent snapshot rejects with the input error
\* before any evaluate is invoked, and produces no ScoreResult.
C8_AbsentSnapshotRejected ==
    /\ (pc # "idle" /\ packageData = NullPackage) => pc = "threw"
    /\ pc = "threw" =>
          /\ packageData = NullPackage
          /\ thrown = "Package data is required"
          /\ evalLog = <<>>
          /\ ruleResults = <<>>
          /\ returned = NoResult

\* the call rejected although an active rule is registered
C8_Witness ==
    /\ pc = "threw"
    /\ Len(getActiveRules(ruleRegistry)) > 0

\* C9: the registry holds at most one rule per name, the most recently
\* registered one; getRules returns exactly the held rules that are
\* enabled, in registration order; no name is evaluated twice in a call.
NamesOf(seq) == [i \in Positions(seq) |-> seq[i].name]
NoDuplicates(seq) == \A i, j \in Positions(seq) : seq[i] = seq[j] => i = j
PositionIn(seq, x) == CHOOSE i \in Positions(seq) : seq[i] = x

BandOfThresholds(s) ==
    CASE s >= Milli(90) -> "SAFE"
      [] Milli(70) <= s /\ s < Milli(90) -> "REVIEW"
      [] Milli(50) <= s /\ s < Milli(70) -> "HIGH_RISK"
      [] s < Milli(50) -> "BLOCK"

C10_BandMatchesReportedScore ==
    returned # NoResult => returned.band = BandOfThresholds(returned.score)

\* the band was taken from a score that rounding then moved across a
\* threshold
C10_Witness ==
    /\ pc = "returned"
    /\ returned.score = Milli(90)
    /\ returned.band = "REVIEW"

(***************************************************************************)
(* Properties of the tarball analyzer                                      *)
(***************************************************************************)
\* p is root or lies below it, name by name
Within(root, p) == IsPrefixOf(root, p)

\* C3: extraction never creates a file or directory outside the extraction
\* root, and getFileContent refuses every path that resolves outside it.
C3_NothingOutsideExtractionRoot ==
    /\ \A c \in Calls : \A p \in created[c] : Within(extractedPath[c], p)
    /\ (lastRead # NoRead /\ ~Within(lastRead.root, lastRead.path)) =>
          lastRead.outcome = "Invalid file path"

\* an entry wrote a file into a sibling of the extraction root whose name
\* begins with the root's name
C3_Witness ==
    \E c \in Calls : \E p \in created[c] :
        /\ ~Within(extractedPath[c], p)
        /\ IsFile(disk, p)

\* C4: once analyzeTarball has returned or thrown, neither its extraction
\* directory nor its scratch directory exists (no later call of its own
\* having created them anew).
C4_NoScratchLeftBehind ==
    \A c \in Calls :
        (/\ Finished(c)
         /\ tempPath[c] # NoPath
         /\ \A o \in Calls : c \notin finishedBefore[o]) =>
            /\ ~Exists(disk, tempPath[c])
            /\ extractedPath[c] # NoPath => ~Exists(disk, extractedPath[c])

\* a call returned an analysis of an archive it extracted, and its scratch
\* directory is gone
C4_Witness ==
    \E c \in Calls :
        /\ tpc[c] = "returned"
        /\ analysis[c] > 0
        /\ ~Exists(disk, tempPath[c])

\* C5: two calls in progress at the same time never work on the same
\* scratch directory, so a call that is downloading still has its tarball
\* and a call that is extracting still has its extraction directory.
C5_ScratchDirectoryNotShared ==
    /\ \A c, o \in Calls :
          (c # o /\ InProgress(c) /\ InProgress(o)) => tempPath[c] # tempPath[o]
    /\ \A c \in Calls :
          /\ tpc[c] = "streaming" => IsDir(disk, tempPath[c])
          /\ tpc[c] = "entries" => IsDir(disk, extractedPath[c])

\* the cleanup of one call removed the directory another call is
\* extracting into
C5_Witness ==
    \E c, o \in Calls :
        /\ c # o
        /\ Finished(o)
        /\ tpc[c] = "entries"
        /\ ~IsDir(disk, extractedPath[c])

\* the directories above the temp root, which exist before any call
AboveTempDir == Ancestors(TempDir) \ {TempDir}

\* C27: for every packageName the name of the scratch directory holds no
\* path separator, so the scratch directory is a direct child of the
\* analyzer's temp root and nothing is created outside the temp root.
C27_ScratchDirectoryInsideTempRoot ==
    /\ \A c \in Calls :
          tempPath[c] # NoPath =>
              /\ Len(replaceSlash(targs[c].packageName)) = 1
              /\ Parent(tempPath[c]) = TempDir
    /\ \A e \in disk : Within(TempDir, e.path) \/ e.path \in AboveTempDir
C27_Witness ==
    \E c \in Calls :
        /\ targs[c].packageName = << <<"@s">>, <<"pkg">> >>
        /\ tempPath[c] = Append(TempDir, <<"@s", "_", "pkg">>)
        /\ IsFile(disk, tarballPathOf(c))

\* the errors with which _downloadTarball rejects
DownloadFailures ==
    {"Failed to download tarball: HTTP status", "ECONNRESET", "Download timeout"}

\* call c has the response of its download and the status is not 2xx
NotOk(c) ==
    responseStatus[c] # NoResponse /\ ~(responseStatus[c] >= 200 /\ responseStatus[c] < 300)

\* another call downloads to the same package.tgz at this moment
DownloadingTo(c) ==
    \E o \in Calls \ {c} :
        /\ tpc[o] \in {"streaming", "extract", "entries", "cleanup", "cleanupTemp"}
        /\ tarballPathOf(o) = tarballPathOf(c)

C29_EntryHandlerHandsBack ==
    [][\A c \in Calls :
          (tpc[c] = "entries" /\ entriesSeen'[c] = entriesSeen[c] + 1) => alive']_vars

\* the only call there is was handed its first entry, a file below a
\* directory no entry had created: nothing was written, next() was not
\* called, and the call is in _extractTarball for good
C29_Witness ==
    \E c \in Calls :
        /\ \A o \in Calls \ {c} : tpc[o] = "idle"
        /\ tpc[c] = "entries" /\ entriesSeen[c] = 1 /\ created[c] = {}
        /\ ~IsDir(disk, Append(extractedPath[c], <<"package">>))
        /\ ~alive

(***************************************************************************)
(* Properties of the lifecycle-script rule and of the update-behavior rule *)
(***************************************************************************)
LifecycleDone == lsPc = "done"
UpdateDone == ubPc = "done"
ScriptOf(hook) == normalizeScript(lsScripts[hook])

\* C11: every RuleResult of the lifecycle-script rule and of the
\* update-behavior rule has a deduction of at least 0 and at most the weight
\* the rule was configured with.
C11_DeductionWithinWeight ==
    /\ LifecycleDone => lsResult.deduction >= 0 /\ lsResult.deduction <= lsWeight
    /\ UpdateDone => ubResult.deduction >= 0 /\ ubResult.deduction <= ubWeight

\* the update-behavior rule summed a risk score beyond the last tier and the
\* deduction stopped at the weight
C11_Witness ==
    /\ UpdateDone
    /\ ubResult.riskScore > 5
    /\ ~ubResult.hasHighRisk
    /\ ubResult.deduction = ubWeight

\* the sum of the per-script risks over the lifecycle scripts of the package
TotalRiskOfScripts ==
    analyzeScript(ScriptOf("preinstall")).risk + analyzeScript(ScriptOf("postinstall")).risk
AnyScriptHighRisk ==
    \E hook \in LifecycleHooks : analyzeScript(ScriptOf(hook)).isHighRisk
FullWeightTier == AnyScriptHighRisk \/ TotalRiskOfScripts >= 3

\* C12: the enabled lifecycle-script rule with weight W returns W when a
\* script is high-risk or totalRisk >= 3, floor(W * 0.75) when totalRisk >= 2,
\* floor(W * 0.5) when totalRisk >= 1 and 0 otherwise, totalRisk being the sum
\* of the per-script risks over all lifecycle scripts.
C12_LifecycleDeductionTiers ==
    (LifecycleDone /\ lsEnabled) =>
        /\ lsResult.totalRisk = TotalRiskOfScripts
        /\ lsResult.deduction =
              IF FullWeightTier THEN lsWeight
              ELSE IF TotalRiskOfScripts >= 2 THEN (3 * lsWeight) \div 4
              ELSE IF TotalRiskOfScripts >= 1 THEN lsWeight \div 2
              ELSE 0

\* two scripts of risk 1 each: the 0.75 tier, rounded down (22 of 30)
C12_Witness ==
    /\ LifecycleDone /\ lsEnabled /\ lsWeight = 30
    /\ Cardinality(lsResult.findings) = 2
    /\ lsResult.totalRisk = 2
    /\ lsResult.deduction = 22

\* C13: the overall riskLevel of a result of the enabled lifecycle-script rule
\* mirrors the deduction tier: "high" with the full-weight tier (a high-risk
\* script or totalRisk >= 3), "medium" with the 0.75 tier, "low" with the 0.5
\* tier and "none" with deduction 0.
C13_RiskLevelMirrorsTier ==
    (LifecycleDone /\ lsEnabled) =>
        lsResult.riskLevel =
            IF FullWeightTier THEN "high"
            ELSE IF TotalRiskOfScripts >= 2 THEN "medium"
            ELSE IF TotalRiskOfScripts >= 1 THEN "low"
            ELSE "none"

\* the full weight was deducted for a total risk of 3 or more with no
\* high-risk script
C13_Witness ==
    /\ LifecycleDone /\ lsEnabled
    /\ lsResult.totalRisk >= 3 /\ ~lsResult.hasHighRisk
    /\ lsResult.deduction = lsWeight

\* the texts of high-risk patterns and a script with one of them put in
\* after its first k words
HighRiskTexts ==
    {CurlPipeSh, <<"wget", "http://x", "|", "sh">>, <<"http://x", "|", "sh">>}
WithPattern(script, k, text) ==
    SubSeq(script, 1, k) \o text \o SubSeq(script, k + 1, Len(script))

\* C14: adding a high-risk pattern to a lifecycle script, the other scripts
\* being the same, never makes the deduction smaller than the one computed
\* without the pattern.
C14_HighRiskPatternNeverLowersDeduction ==
    LifecycleDone =>
        \A hook \in LifecycleHooks, text \in HighRiskTexts :
            \A k \in 0..Len(lsScripts[hook]) :
                lifecycleResult(lsWeight, lsEnabled,
                                [lsScripts EXCEPT ![hook] = WithPattern(@, k, text)]).deduction
                    >= lsResult.deduction

\* a script that cost half the weight, which the pattern raises to the weight
C14_Witness ==
    /\ LifecycleDone /\ lsEnabled
    /\ lsScripts["preinstall"] # NoScript /\ lsScripts["postinstall"] = NoScript
    /\ lsResult.deduction = lsWeight \div 2
    /\ lifecycleResult(lsWeight, lsEnabled,
                       [lsScripts EXCEPT !["preinstall"] = WithPattern(@, 0, CurlPipeSh)]).deduction
         = lsWeight

Scenario1 ==
    /\ LifecycleDone /\ lsEnabled /\ lsWeight = 30
    /\ lsScripts["preinstall"] = NoScript
    /\ lsScripts["postinstall"] = CurlPipeSh

\* C15: with postinstall "curl http://x/y.sh | sh" as the only lifecycle
\* script and weight 30, the script's risk is 3 with isHighRisk true and the
\* rule returns deduction 30 with riskLevel "high".
C15_CurlPipeShScenario ==
    Scenario1 =>
        /\ \E finding \in lsResult.findings :
              /\ finding.hook = "postinstall"
              /\ finding.risk = 3
              /\ finding.isHighRisk
        /\ lsResult.deduction = 30
        /\ lsResult.riskLevel = "high"

\* the scenario evaluated: one finding, for postinstall
C15_Witness ==
    /\ Scenario1
    /\ Cardinality(lsResult.findings) = 1
    /\ lsResult.hasHighRisk

Scenario2 ==
    /\ LifecycleDone /\ lsEnabled /\ lsWeight = 30
    /\ lsScripts["postinstall"] = CurlUrl
    /\ lsScripts["preinstall"] = WgetUrl

\* C16: with scripts postinstall "curl http://x" and preinstall
\* "wget http://y" and weight 30, each script counts one suspicious match,
\* totalRisk is 2 and the rule returns deduction 22 with riskLevel "medium".
C16_TwoSuspiciousScriptsScenario ==
    Scenario2 =>
        /\ \A finding \in lsResult.findings : finding.risk = 1
        /\ lsResult.totalRisk = 2
        /\ lsResult.deduction = 22
        /\ lsResult.riskLevel = "medium"

\* the scenario evaluated: a finding for each of the two scripts
C16_Witness ==
    /\ Scenario2
    /\ Cardinality(lsResult.findings) = 2

HistoryResolved == ubHistory.kind = "resolved"
HistoryKeys == DOMAIN ubHistory.versions
Settled == ubPc \notin {"idle", "called", "fetching"}
SoftMissCase ==
    \/ ~ubPackage.present
    \/ ubPackage.name = ""
    \/ ubHistory.kind \in {"rejected", "null"}
    \/ HistoryResolved /\ Cardinality(HistoryKeys) < 2

\* C17: evaluate of the update-behavior rule fails soft: when the snapshot is
\* missing or has no name, when the version history cannot be retrieved, or
\* when the history has fewer than two versions, evaluate does not throw and
\* returns deduction 0 with a riskLevel other than "error".
C17_UpdateRuleFailsSoft ==
    (Settled /\ SoftMissCase) =>
        /\ ubPc = "done"
        /\ ubResult.deduction = 0
        /\ ubResult.riskLevel # "error"

\* the registry call was rejected and evaluate answered
C17_Witness ==
    /\ UpdateDone
    /\ ubPackage.present /\ ubPackage.name # ""
    /\ ubHistory.kind = "rejected"
    /\ ubResult.reason = "Could not analyze version history"

Abs(n) == IF n < 0 THEN -n ELSE n
\* C18: with the default thresholds, for every pair (a, b) of parseable
\* versions with equal major and |minor difference| <= 5, or with equal major
\* and minor and any patch difference, isUnusual is false; for every pair
\* whose major grows by 2 or more, isUnusual is true with type "major-jump".
C18_VersionJumpDetection ==
    (UpdateDone /\ HistoryResolved) =>
        \A a \in HistoryKeys, b \in HistoryKeys :
            (parseVersion(a).ok /\ parseVersion(b).ok) =>
                /\ (/\ parseVersion(a).major = parseVersion(b).major
                    /\ Abs(parseVersion(b).minor - parseVersion(a).minor) <= 5)
                      => ~analyzeVersionJump(a, b).isUnusual
                /\ (/\ parseVersion(a).major = parseVersion(b).major
                    /\ parseVersion(a).minor = parseVersion(b).minor)
                      => ~analyzeVersionJump(a, b).isUnusual
                /\ parseVersion(b).major - parseVersion(a).major >= 2
                      => /\ analyzeVersionJump(a, b).isUnusual
                         /\ analyzeVersionJump(a, b).type = "major-jump"

Findings == ubResult.analysis.findings
JumpFindings == {i \in 1..Len(Findings) : Findings[i].type = "version-jump"}
ChangeFindings == {i \in 1..Len(Findings) : Findings[i].type # "version-jump"}

\* a history with a minor step of 5, a patch step and a major step of 2, of
\* which only the last is reported
C18_Witness ==
    /\ UpdateDone /\ HistoryResolved
    /\ HistoryKeys = {VersionString(1, 0, 0), VersionString(1, 5, 0), VersionString(3, 0, 0)}
    /\ Cardinality(JumpFindings) = 1
    /\ \A i \in JumpFindings : Findings[i].fromVersion = VersionString(1, 5, 0)

OneThenThree ==
    /\ UpdateDone /\ HistoryResolved /\ Cardinality(HistoryKeys) >= 2
    /\ \E i \in 1..(Cardinality(HistoryKeys) - 1) :
          /\ sort("compareVersionStrings", sort("default", keysOf(HistoryKeys)))[i]
                = VersionString(1, 0, 0)
          /\ sort("compareVersionStrings", sort("default", keysOf(HistoryKeys)))[i + 1]
                = VersionString(3, 0, 0)

\* C19: when the version history has 1.0.0 followed by 3.0.0, the result of
\* evaluate has a finding of type "version-jump" that carries jumpType
\* "major-jump" and magnitude 2.
C19_MajorJumpFindingCarriesMagnitude ==
    OneThenThree =>
        \E i \in JumpFindings :
            /\ Findings[i].fromVersion = VersionString(1, 0, 0)
            /\ Findings[i].toVersion = VersionString(3, 0, 0)
            /\ Findings[i].jumpType = "major-jump"
            /\ "magnitude" \in DOMAIN Findings[i]
            /\ Findings[i].magnitude = 2

\* the jump from 1.0.0 to 3.0.0 was found and reported as a major jump
C19_Witness ==
    /\ OneThenThree
    /\ \E i \in JumpFindings :
          /\ Findings[i].fromVersion = VersionString(1, 0, 0)
          /\ Findings[i].toVersion = VersionString(3, 0, 0)
          /\ Findings[i].jumpType = "major-jump"

SizeOf(version) == ubHistory.versions[version].unpackedSize
MoreThanDoubled(i) ==
    /\ SizeOf(Findings[i].fromVersion) > 0
    /\ SizeOf(Findings[i].toVersion) - SizeOf(Findings[i].fromVersion)
         > SizeOf(Findings[i].fromVersion)
HighSize == {i \in ChangeFindings : Findings[i].changes.sizeChange = "high"}
OtherSize == {i \in ChangeFindings : Findings[i].changes.sizeChange \notin {"high", NoSizeChange}}
NewlySuspicious(n) == {i \in ChangeFindings : Findings[i].changes.newSuspiciousScripts >= n}
PlainScriptChange ==
    {i \in ChangeFindings : /\ Findings[i].changes.newSuspiciousScripts = 0
                            /\ Findings[i].changes.scriptChanges}
SignificantDeps == {i \in ChangeFindings : Findings[i].changes.dependencyChanges}
ExpectedRiskScore ==
    Cardinality(JumpFindings)
    + 3 * Cardinality(HighSize) + Cardinality(OtherSize)
    + 2 * (Cardinality(NewlySuspicious(1)) + Cardinality(NewlySuspicious(2)))
    + Cardinality(PlainScriptChange)
    + Cardinality(SignificantDeps)

\* C20: riskScore is 1 per version jump, plus per pairwise change 3 for a
\* size change of severity high (more than doubled) and 1 for any other flagged
\* size change, 2 per newly-suspicious script or 1 for a script change with
\* none, and 1 for a significant dependency change; hasHighRisk is set exactly
\* by a high size change or a newly-suspicious script; the deduction is W if
\* hasHighRisk or riskScore >= 5, floor(W * 0.75) if riskScore >= 3,
\* floor(W * 0.5) if riskScore >= 1, else 0.
C20_UpdateRiskScoring ==
    (UpdateDone /\ HistoryResolved /\ Cardinality(HistoryKeys) >= 2) =>
        /\ \A i \in ChangeFindings : (i \in HighSize) <=> MoreThanDoubled(i)
        /\ ubResult.riskScore = ExpectedRiskScore
        /\ ubResult.hasHighRisk <=> (HighSize # {} \/ NewlySuspicious(1) # {})
        /\ ubResult.deduction =
              IF ubResult.hasHighRisk \/ ubResult.riskScore >= 5 THEN ubWeight
              ELSE IF ubResult.riskScore >= 3 THEN (3 * ubWeight) \div 4
              ELSE IF ubResult.riskScore >= 1 THEN ubWeight \div 2
              ELSE 0

\* two versions of 1,000,000 and 3,000,000 bytes: severity high, 3 added to
\* riskScore, hasHighRisk set and the whole weight deducted
C20_Witness ==
    /\ UpdateDone /\ HistoryResolved
    /\ Cardinality(HistoryKeys) = 2
    /\ \E i \in HighSize :
          /\ SizeOf(Findings[i].fromVersion) = 1000000
          /\ SizeOf(Findings[i].toVersion) = 3000000
    /\ ubResult.riskScore = 3
    /\ ubResult.hasHighRisk
    /\ ubResult.deduction = ubWeight

\* the patterns of the rule a script over Words can match, by what they look for
HighRiskKinds == {"curl | sh", "wget | sh", "http | sh"}
SuspiciousKinds == {"curl arg", "wget arg", "wget http", "curl http"}
ObfuscationKinds == {"hex escape"}
MatchCount(kind, script) ==
    CASE kind = "curl | sh" -> BoolToNat(toolPipedToShell(script, "curl"))
      [] kind = "wget | sh" -> BoolToNat(toolPipedToShell(script, "wget"))
      [] kind = "http | sh" -> BoolToNat(httpPipedToShell(script))
      [] kind = "curl arg" -> BoolToNat(toolWithArgument(script, "curl"))
      [] kind = "wget arg" -> BoolToNat(toolWithArgument(script, "wget"))
      [] kind = "wget http" -> BoolToNat(toolThenHttp(script, "wget"))
      [] kind = "curl http" -> BoolToNat(toolThenHttp(script, "curl"))
      [] kind = "hex escape" -> Cardinality({i \in Indexes(script) : script[i] \in HexEscapes})
Matching(kinds, script) == {kind \in kinds : MatchCount(kind, script) >= 1}
StatedRisk(script) ==
    (IF Matching(HighRiskKinds, script) # {} THEN 3 ELSE 0)
    + Cardinality(Matching(SuspiciousKinds, script))
    + 2 * Cardinality(Matching(ObfuscationKinds, script))
    + (IF chains(script) >= 3 THEN 1 ELSE 0)
FindingsOf(hook) == {f \in lsResult.findings : f.hook = hook}

Analyzed == UpdateDone /\ HistoryResolved /\ ubResult.reason = "none"
Parses(version) == parseVersion(version) # NoParse
Before(a, b) == Parses(a) /\ Parses(b) /\ compareVersionStrings(a, b) < 0
\* b is the release that follows a in the history, by (major, minor, patch)
NextRelease(a, b) ==
    /\ Before(a, b)
    /\ ~\E v \in HistoryKeys : Before(a, v) /\ Before(v, b)

\* C24: the update-behavior rule orders the version list ascending by
\* (major, minor, patch) before it selects the window, so every pair of
\* versions it diffs is a release and the release that follows it.
C24_DiffedPairsAreConsecutiveReleases ==
    Analyzed =>
        \A i \in ChangeFindings :
            (Parses(Findings[i].fromVersion) /\ Parses(Findings[i].toVersion))
                => NextRelease(Findings[i].fromVersion, Findings[i].toVersion)
C24_Witness ==
    /\ Analyzed
    /\ HistoryKeys = {VersionString(1, 0, 0), VersionString(2, 0, 0), VersionString(3, 0, 0)}
    /\ Cardinality(ChangeFindings) = 2
    /\ \A i \in ChangeFindings : NextRelease(Findings[i].fromVersion, Findings[i].toVersion)

\* the snapshot's own version is among the last maxVersionsToAnalyze versions
SnapshotInWindow ==
    /\ ubPackage.version \in HistoryKeys
    /\ Cardinality(HistoryKeys) <= maxVersionsToAnalyze
Diffed(version) ==
    \E i \in ChangeFindings :
        Findings[i].fromVersion = version \/ Findings[i].toVersion = version

\* C25: the window of diffed versions is the last maxVersionsToAnalyze
\* versions of the sorted list, cut off after the snapshot's version when it
\* is among them: versionsAnalyzed never exceeds maxVersionsToAnalyze and,
\* with the snapshot's version in the window, no version newer than it is
\* diffed.
C25_WindowEndsAtSnapshotVersion ==
    Analyzed =>
        /\ ubResult.analysis.versionsAnalyzed <= maxVersionsToAnalyze
        /\ SnapshotInWindow =>
               \A v \in HistoryKeys : Before(ubPackage.version, v) => ~Diffed(v)
C25_Witness ==
    /\ Analyzed /\ SnapshotInWindow
    /\ HistoryKeys = {VersionString(1, 0, 0), VersionString(1, 5, 0), VersionString(2, 0, 0)}
    /\ ubPackage.version = VersionString(1, 5, 0)
    /\ ubResult.analysis.versionsAnalyzed = 2
    /\ Diffed(VersionString(1, 5, 0)) /\ ~Diffed(VersionString(2, 0, 0))

ReportedJumps == {<<Findings[i].fromVersion, Findings[i].toVersion>> : i \in JumpFindings}
\* the jumps between each parseable version and the parseable version after it
JumpsBetweenParseable ==
    {pair \in HistoryKeys \X HistoryKeys :
        NextRelease(pair[1], pair[2]) /\ analyzeVersionJump(pair[1], pair[2]).isUnusual}
HasUnparseable == \E v \in HistoryKeys : ~Parses(v)

\* C26: version strings that do not parse are left out of jump detection:
\* the jumps reported are those between each parseable version and the next
\* parseable version in sorted order, whatever unparseable strings the
\* history holds.
C26_UnparseableVersionsIgnored == Analyzed => ReportedJumps = JumpsBetweenParseable
C26_Witness ==
    /\ Analyzed /\ HasUnparseable
    /\ HistoryKeys = {Unparseable, VersionString(1, 0, 0), VersionString(3, 0, 0)}
    /\ ReportedJumps = {<<VersionString(1, 0, 0), VersionString(3, 0, 0)>>}

(***************************************************************************)
(* Properties of the rules that query the source host                      *)
(***************************************************************************)
SignalsDone == ghPc = "done" /\ ghResult.totalRisk >= 0
RateLimited(query) ==
    \E i \in 1..Len(ghAnswers) :
        /\ ghAnswers[i].query = query
        /\ ghAnswers[i].statusCode = 403 /\ ghAnswers[i].remaining = 0
\* a finding that exists only because a query ran into the exhausted quota
DueToRateLimit(f) ==
    \/ f.message = RateLimitExceeded
    \/ f.type = "no-security-policy" /\ RateLimited("hasSecurityPolicy")
\* what a real finding of the result counts, in tenths
RiskOfFinding(f) ==
    IF f.type \in {"security-policy-check-error"} THEN 0
    ELSE IF ghRule = "maintainer-security"
    THEN IF f.type \in {"no-maintainers", "new-account", "bot-account"} THEN 5 ELSE Tenths(1)
    ELSE IF f.type \in {"archived-repo", "disabled-repo", "inactive-repo",
                        "low-activity-repo", "low-community-engagement"} THEN 3 ELSE 5
RECURSIVE RiskWithoutRateLimit(_)
RiskWithoutRateLimit(findings) ==
    IF findings = <<>> THEN 0
    ELSE (IF DueToRateLimit(Head(findings)) THEN 0 ELSE RiskOfFinding(Head(findings)))
         + RiskWithoutRateLimit(Tail(findings))

\* C21: a query of MaintainerSecurityRule or CommunitySignalsRule that fails
\* because the quota is exhausted adds nothing to totalRisk and does not raise
\* the deduction: the result is the one of the findings that are not due to
\* the exhausted quota.
C21_RateLimitAddsNoRisk ==
    SignalsDone =>
        /\ ghResult.totalRisk = RiskWithoutRateLimit(ghResult.findings)
        /\ ghResult.deduction =
               signalDeduction(ghWeight, RiskWithoutRateLimit(ghResult.findings))
C21_Witness ==
    /\ SignalsDone
    /\ RateLimited("getRepository")
    /\ \A i \in 1..Len(ghAnswers) :
          ghAnswers[i].statusCode = 403 => ghAnswers[i].query = "getRepository"
    /\ ghResult.deduction > 0

(***************************************************************************)
(* Properties of repeated calls of the calculator                          *)
(***************************************************************************)
SameInputsAsPrevious ==
    /\ pc = "returned"
    /\ previous.score >= 0
    /\ previous.config = config
    /\ previous.rules = rules
    /\ previous.packageData = packageData

\* C22: calculateScore is deterministic: a call with the snapshot and the
\* rule configuration of the call before it resolves with the same score,
\* whatever the earlier calls left behind.
C22_SameInputsSameScore == SameInputsAsPrevious => returned.score = previous.score
C22_Witness ==
    /\ SameInputsAsPrevious
    /\ Len(rules) = 2
    /\ returned.score # config.baseScore
    /\ replacedOnce

(***************************************************************************)
(* Properties of the advisory client                                       *)
(***************************************************************************)
\* C30: only lookups whose sources were both answered are cached: no cache
\* entry was stored by a call in which the fetch of a source was caught, and
\* no call resolves from the cache with the list of such a call.
C30_OnlyAnsweredLookupsCached ==
    /\ \A k \in CacheKeys : advCache[k] # NoEntry => k \notin staleKeys
    /\ advReturned.fromCache => ~advReturned.stale

\* a source failed, the list was stored all the same, and a later call for
\* the same key got it from the cache within the TTL
C30_Witness ==
    /\ advPc = "idle"
    /\ advReturned.outcome = "returned" /\ advReturned.fromCache /\ advReturned.stale
    /\ advFailed # {}
    /\ advCache[advKey].data = advReturned.data
    /\ now - advCache[advKey].timestamp < cacheTTL

====
